---- MODULE Spec2Model ----
(***************************************************************************)
(* A model of the device session and command/poll coordinator of           *)
(* catt_cast_gui/gui.py (class CattQtNG with its CattWorker / PipedWorker  *)
(* threads).                                                               *)
(*                                                                         *)
(* The control (GUI) thread owns every field of the window object.  A      *)
(* handler of the control thread is modelled as a function from the whole  *)
(* program state (a record w, one field per variable below) to the state   *)
(* it leaves, so that a handler that calls another handler is the          *)
(* composition of the two.  Signals emitted by a worker thread towards an  *)
(* object living in the control thread are queued: they are appended to    *)
(* `queue` and handled by the control thread in FIFO order, interleaved    *)
(* arbitrarily with clicks and timer ticks.                                *)
(*                                                                         *)
(* The relay module is taken to be importable (GET_PIPED_URL_AVAILABLE),   *)
(* and the catt executable to be found at start-up, so that construction   *)
(* ends in scan_devices().                                                 *)
(***************************************************************************)
EXTENDS Integers, Sequences, FiniteSets, TLC

\* ---------------------------------------------------------------- bounds
MaxDevices == 1
MaxThreads == 2
MaxProcs == 2
MaxTime == 1
MaxStreams == 2

\* ------------------------------------------------------ program constants
\* _poll_status_after_cast gives up when the attempt counter exceeds this.
MaxAttempts == 5

\* ------------------------------------------------------------------- texts
\* A Python str is the sequence of its characters.  (A name defined by LET is
\* computed again at each use, a parameter once: what is used more than once
\* is handed on as a parameter.)
Lowercase ==
    <<"a", "b", "c", "d", "e", "f", "g", "h", "i", "j", "k", "l", "m", "n",
      "o", "p", "q", "r", "s", "t", "u", "v", "w", "x", "y", "z">>
Uppercase ==
    <<"A", "B", "C", "D", "E", "F", "G", "H", "I", "J", "K", "L", "M", "N",
      "O", "P", "Q", "R", "S", "T", "U", "V", "W", "X", "Y", "Z">>
Digits == <<"0", "1", "2", "3", "4", "5", "6", "7", "8", "9">>

Range(s) == {s[i] : i \in 1..Len(s)}

Letters == Range(Lowercase) \cup Range(Uppercase)
Numerals == Range(Digits)

\* str.isalnum() of one character.
isalnum(c) == c \in Letters \/ c \in Numerals

\* str.lower()
lower(s) ==
    [i \in 1..Len(s) |->
        IF s[i] \in Range(Uppercase)
        THEN Lowercase[CHOOSE k \in 1..26 : Uppercase[k] = s[i]]
        ELSE s[i]]

\* The least and the greatest member of a set of positions, 0 if it is empty.
first_of(at) == IF at = {} THEN 0 ELSE CHOOSE i \in at : \A j \in at : i <= j
last_of(at) == IF at = {} THEN 0 ELSE CHOOSE i \in at : \A j \in at : i >= j

\* The positions at which sub occurs in s.
occurrences(s, sub) ==
    {i \in 1..(Len(s) - Len(sub) + 1) : SubSeq(s, i, i + Len(sub) - 1) = sub}

\* str.find(sub) + 1 and str.rfind(sub) + 1
find(s, sub) == first_of(occurrences(s, sub))
rfind(s, sub) == last_of(occurrences(s, sub))

\* sub in s
contains(s, sub) == find(s, sub) # 0

startswith(s, prefix) ==
    Len(prefix) <= Len(s) /\ SubSeq(s, 1, Len(prefix)) = prefix

endswith(s, suffix) ==
    /\ Len(suffix) <= Len(s)
    /\ SubSeq(s, Len(s) - Len(suffix) + 1, Len(s)) = suffix

\* s[i:], with i counted from 1.
from(s, i) == SubSeq(s, i, Len(s))

\* str.split(sep); split_at: sep occurs first at i.
RECURSIVE split(_, _)
RECURSIVE split_at(_, _, _)
split_at(s, sep, i) ==
    IF i = 0 THEN <<s>>
    ELSE <<SubSeq(s, 1, i - 1)>> \o split(from(s, i + Len(sep)), sep)

split(s, sep) == split_at(s, sep, find(s, sep))

\* str.split(sep, 1)
split_once_at(s, sep, i) ==
    IF i = 0 THEN <<s>> ELSE <<SubSeq(s, 1, i - 1), from(s, i + Len(sep))>>

split_once(s, sep) == split_once_at(s, sep, find(s, sep))

\* str.lstrip(chars), str.rstrip(chars) and str.strip() (of blanks)
RECURSIVE lstrip(_, _)
lstrip(s, chars) ==
    IF s # <<>> /\ Head(s) \in chars THEN lstrip(Tail(s), chars) ELSE s

RECURSIVE rstrip(_, _)
rstrip(s, chars) ==
    IF s # <<>> /\ s[Len(s)] \in chars
    THEN rstrip(SubSeq(s, 1, Len(s) - 1), chars) ELSE s

strip(s) == rstrip(lstrip(s, {" "}), {" "})

\* int(s): <<n>>, or <<>> where Python raises ValueError.  Blanks around the
\* digits and one sign before them are accepted.
RECURSIVE to_number(_, _)
to_number(ds, acc) ==
    IF ds = <<>> THEN acc
    ELSE to_number(Tail(ds),
             10 * acc + (CHOOSE k \in 0..9 : Digits[k + 1] = Head(ds)))

unsigned(ds) ==
    IF ds = <<>> \/ \E i \in 1..Len(ds) : ds[i] \notin Numerals THEN <<>>
    ELSE <<to_number(ds, 0)>>

negated(n) == IF n = <<>> THEN <<>> ELSE <<0 - n[1]>>

signed(t) ==
    IF t # <<>> /\ Head(t) = "-" THEN negated(unsigned(Tail(t)))
    ELSE IF t # <<>> /\ Head(t) = "+" THEN unsigned(Tail(t))
    ELSE unsigned(t)

int(s) == signed(strip(s))

\* urllib.parse.urlparse(s): the network location, the path and the query.
\* A scheme is a letter followed by letters, digits, "+", "-" or "." before
\* the first ":"; a network location follows "//" and ends before the first
\* "/", "?" or "#"; the fragment follows the first "#" of what is left, the
\* query the first "?".
url_parts(netloc, path_query) ==
    [netloc |-> netloc, path |-> path_query[1],
     query |-> IF Len(path_query) > 1 THEN path_query[2] ELSE <<>>]

url_tail(netloc, tail) ==
    url_parts(netloc, split_once(split_once(tail, <<"#">>)[1], <<"?">>))

url_netloc_to(after, stop) ==
    IF stop = 0 THEN url_tail(after, <<>>)
    ELSE url_tail(SubSeq(after, 1, stop - 1), from(after, stop))

url_netloc(after) ==
    url_netloc_to(after,
        first_of({i \in 1..Len(after) : after[i] \in {"/", "?", "#"}}))

url_rest(rest) ==
    IF startswith(rest, <<"/", "/">>) THEN url_netloc(from(rest, 3))
    ELSE url_tail(<<>>, rest)

url_scheme_to(s, colon) ==
    IF /\ colon > 1
       /\ s[1] \in Letters
       /\ \A i \in 1..(colon - 1) : isalnum(s[i]) \/ s[i] \in {"+", "-", "."}
    THEN url_rest(from(s, colon + 1))
    ELSE url_rest(s)

urlparse(s) == url_scheme_to(s, find(s, <<":">>))

\* urllib.parse.parse_qs(query)[key], <<>> when the key is absent: the values
\* of the fields named key, fields with a blank value left out.
field_value(nv, key) ==
    IF Len(nv) > 1 /\ nv[1] = key /\ nv[2] # <<>> THEN <<nv[2]>> ELSE <<>>

RECURSIVE field_values(_, _)
field_values(fields, key) ==
    IF fields = <<>> THEN <<>>
    ELSE field_value(split_once(Head(fields), <<"=">>), key)
         \o field_values(Tail(fields), key)

parse_qs(query, key) == field_values(split(query, <<"&">>), key)

\* [p for p in parts if p]
RECURSIVE non_empty(_)
non_empty(ss) ==
    IF ss = <<>> THEN <<>>
    ELSE (IF Head(ss) # <<>> THEN <<Head(ss)>> ELSE <<>>) \o non_empty(Tail(ss))

\* The phrases handle_status_error looks for.
INACTIVE == <<"i", "n", "a", "c", "t", "i", "v", "e">>
NOTHING_PLAYING ==
    <<"N", "o", "t", "h", "i", "n", "g", " ", "i", "s", " ", "c", "u", "r",
      "r", "e", "n", "t", "l", "y", " ", "p", "l", "a", "y", "i", "n", "g">>

\* The host names extract_video_id looks for.
PIPED_INSTANCE ==
    <<"p", "i", "p", "e", "d", "a", "p", "i", ".", "k", "a", "v", "i", "n",
      ".", "r", "o", "c", "k", "s">>
YOUTU_BE == <<"y", "o", "u", "t", "u", ".", "b", "e">>
YOUTUBE_COM == <<"y", "o", "u", "t", "u", "b", "e", ".", "c", "o", "m">>
YOUTUBE_NOCOOKIE_COM ==
    <<"y", "o", "u", "t", "u", "b", "e", "-", "n", "o", "c", "o", "o", "k",
      "i", "e", ".", "c", "o", "m">>
SHORTS == <<"s", "h", "o", "r", "t", "s">>

\* extract_video_id(arg): the identifier, <<>> for None.
\* An extraction that takes the second segment of any path.
id_of_watch_any_path(v, parts) ==
    IF v # <<>> THEN v[1]
    ELSE IF Len(parts) >= 2 THEN parts[2]
    ELSE <<>>

\* The query and the path of a URL of the video site.
id_of_watch(v, parts) ==
    IF v # <<>> THEN v[1]
    ELSE IF Len(parts) >= 2 /\ parts[1] = SHORTS THEN parts[2]
    ELSE <<>>

id_of_url(u) ==
    IF u.netloc = <<>> THEN <<>>
    ELSE IF endswith(u.netloc, YOUTU_BE)
    THEN split(lstrip(u.path, {"/"}), <<"/">>)[1]
    ELSE IF \/ contains(u.netloc, YOUTUBE_COM)
            \/ contains(u.netloc, YOUTUBE_NOCOOKIE_COM)
            \/ contains(u.netloc, PIPED_INSTANCE)
    THEN id_of_watch(parse_qs(u.query, <<"v">>),
                     non_empty(split(u.path, <<"/">>)))
    ELSE <<>>

extract_video_id(arg) ==
    IF Len(arg) = 11 /\ \A i \in 1..11 : isalnum(arg[i]) \/ arg[i] \in {"-", "_"}
    THEN arg
    ELSE id_of_url(urlparse(arg))

\* ------------------------------------------------------------ references
Https == <<"h", "t", "t", "p", "s", ":", "/", "/">>
VideoId == <<"d", "Q", "w", "4", "w", "9", "W", "g", "X", "c", "Q">>
WatchV == <<"/", "w", "a", "t", "c", "h", "?", "v", "=">>
WwwYoutubeCom ==
    <<"w", "w", "w", ".", "y", "o", "u", "t", "u", "b", "e", ".", "c", "o",
      "m">>
ExampleCom == <<"e", "x", "a", "m", "p", "l", "e", ".", "c", "o", "m">>
LocalPath ==
    <<"/", "h", "o", "m", "e", "/", "u", "/", "a", ".", "m", "p", "4">>
DirectUrl ==
    <<"h", "t", "t", "p", "s", ":", "/", "/", "r", ".", "e", "x", "a", "m",
      "p", "l", "e", ".", "c", "o", "m", "/", "v", ".", "m", "p", "4">>

\* ------------------------------------------------------- the relay resolver
\* The defaults of get_best_piped_url: prefer_container, prefer_codecs.
Mp4 == <<"m", "p", "4">>
Webm == <<"w", "e", "b", "m">>
H264 == <<"h", "2", "6", "4">>
Av1 == <<"a", "v", "1">>
Vp9 == <<"v", "p", "9">>
PreferContainer == <<Mp4, Webm>>
PreferCodecs == <<H264, Av1, Vp9>>

\* norm(s): (s or "").strip().lower()
norm(s) == lower(strip(s))

\* ext_from_url(u)
ext_after(path, dot) == IF dot = 0 THEN <<>> ELSE lower(from(path, dot + 1))
ext_of_path(path) == ext_after(path, rfind(path, <<".">>))
ext_from_url(u) == ext_of_path(urlparse(u).path)

\* pref_score(val, pref_list) of score_progressive: the rank of the first
\* entry of the list that val matches, by prefix for a codec and exactly for
\* a container; blank entries are skipped; 0 if there is none.
rank(first, pref_list) == IF first = 0 THEN 0 ELSE Len(pref_list) - first + 1

pref_score(val, pref_list, by_prefix) ==
    rank(first_of({i \in 1..Len(pref_list) :
                     /\ norm(pref_list[i]) # <<>>
                     /\ IF by_prefix THEN startswith(norm(val), norm(pref_list[i]))
                        ELSE norm(val) = norm(pref_list[i])}),
         pref_list)

\* `a or b` of two values of which None and "" are <<>>.
or_else(a, b) == IF a # <<>> THEN a ELSE b

score_progressive(s, prefer_container, prefer_codecs) ==
    <<pref_score(or_else(s.container, or_else(s.format, ext_from_url(s.url))),
                 prefer_container, FALSE),
      pref_score(or_else(s.codec, s.codecs), prefer_codecs, TRUE),
      s.height, s.bitrate>>

\* The order of Python tuples of four integers.
tuple_less(a, b) ==
    \E k \in 1..4 : a[k] < b[k] /\ \A j \in 1..(k - 1) : a[j] = b[j]

\* list.sort(key=lambda x: x[0], reverse=True): a stable sort, so that of
\* two candidates with equal scores the one that came first stays first.
\* x came before every member of rest, and goes behind those n of them that
\* score more.
placed(x, rest, n) == SubSeq(rest, 1, n) \o <<x>> \o SubSeq(rest, n + 1, Len(rest))

inserted(x, rest) ==
    placed(x, rest,
           Cardinality({i \in 1..Len(rest) : tuple_less(x[1], rest[i][1])}))

RECURSIVE sorted_descending(_)
sorted_descending(cs) ==
    IF cs = <<>> THEN <<>>
    ELSE inserted(Head(cs), sorted_descending(Tail(cs)))

\* The candidates of pick_best_progressive, in input order.
candidate(s, prefer_container, prefer_codecs) ==
    IF s.url # <<>> /\ ~s.videoOnly
    THEN <<<<score_progressive(s, prefer_container, prefer_codecs), s.url>>>>
    ELSE <<>>

RECURSIVE candidates(_, _, _)
candidates(streams, prefer_container, prefer_codecs) ==
    IF streams = <<>> THEN <<>>
    ELSE candidate(Head(streams), prefer_container, prefer_codecs)
         \o candidates(Tail(streams), prefer_container, prefer_codecs)

\* candidates[0][1], <<>> (None) if there is no candidate.
url_of_first(cs) == IF cs = <<>> THEN <<>> ELSE cs[1][2]

\* A choice that keeps the last of the candidates with the greatest score.
url_of_last_best(cs) ==
    IF cs = <<>> THEN <<>>
    ELSE cs[last_of({i \in 1..Len(cs) :
                       \A j \in 1..Len(cs) : ~tuple_less(cs[i][1], cs[j][1])})][2]

pick_best_progressive_last(data, prefer_container, prefer_codecs) ==
    url_of_last_best(candidates(data.videoStreams, prefer_container, prefer_codecs))

\* pick_best_progressive(data, ...): the URL, <<>> for None.
pick_best_progressive(data, prefer_container, prefer_codecs) ==
    url_of_first(sorted_descending(
        candidates(data.videoStreams, prefer_container, prefer_codecs)))

\* The first of three URLs that is not None or empty, or the ValueError.
first_present(a, b, c) ==
    IF a # <<>> THEN [url |-> a, raised |-> "none"]
    ELSE IF b # <<>> THEN [url |-> b, raised |-> "none"]
    ELSE IF c # <<>> THEN [url |-> c, raised |-> "none"]
    ELSE [url |-> <<>>, raised |-> "No suitable stream URL found"]

\* A selection that prefers the HLS playlist to a progressive stream.
select_stream_hls_first(data, prefer_container, prefer_codecs) ==
    first_present(data.hls,
                  pick_best_progressive(data, prefer_container, prefer_codecs),
                  data.dash)

\* get_best_piped_url, after the relay has answered with data: the URL it
\* returns, or the ValueError it raises.
select_stream(data, prefer_container, prefer_codecs) ==
    first_present(pick_best_progressive(data, prefer_container, prefer_codecs),
                  data.hls, data.dash)

\* ------------------------------------------------------------- input texts
NotAUrl == <<"n", "o", "t", " ", "a", " ", "u", "r", "l">>
ShortToken == <<"d", "Q", "w", "4", "w", "9", "W", "g", "X", "c">>
DottedToken == <<"m", "o", "v", "i", "e", "_", "1", ".", "m", "p", "4">>
EmbedPath == <<"/", "e", "m", "b", "e", "d", "/">>
ShortsPath == <<"/", "s", "h", "o", "r", "t", "s", "/">>
WwwNocookie ==
    <<"w", "w", "w", ".", "y", "o", "u", "t", "u", "b", "e", "-", "n", "o",
      "c", "o", "o", "k", "i", "e", ".", "c", "o", "m">>
UrlA ==
    <<"h", "t", "t", "p", "s", ":", "/", "/", "r", ".", "e", "x", "a", "m",
      "p", "l", "e", ".", "c", "o", "m", "/", "a">>
UrlB ==
    <<"h", "t", "t", "p", "s", ":", "/", "/", "r", ".", "e", "x", "a", "m",
      "p", "l", "e", ".", "c", "o", "m", "/", "b">>
UrlC ==
    <<"h", "t", "t", "p", "s", ":", "/", "/", "r", ".", "e", "x", "a", "m",
      "p", "l", "e", ".", "c", "o", "m", "/", "c">>
UrlD ==
    <<"h", "t", "t", "p", "s", ":", "/", "/", "r", ".", "e", "x", "a", "m",
      "p", "l", "e", ".", "c", "o", "m", "/", "d", ".", "w", "e", "b", "m">>
UrlE ==
    <<"h", "t", "t", "p", "s", ":", "/", "/", "r", ".", "e", "x", "a", "m",
      "p", "l", "e", ".", "c", "o", "m", "/", "e">>
UrlG ==
    <<"h", "t", "t", "p", "s", ":", "/", "/", "r", ".", "e", "x", "a", "m",
      "p", "l", "e", ".", "c", "o", "m", "/", "g">>
HlsUrl ==
    <<"h", "t", "t", "p", "s", ":", "/", "/", "r", ".", "e", "x", "a", "m",
      "p", "l", "e", ".", "c", "o", "m", "/", "v", ".", "m", "3", "u", "8">>
DashUrl ==
    <<"h", "t", "t", "p", "s", ":", "/", "/", "r", ".", "e", "x", "a", "m",
      "p", "l", "e", ".", "c", "o", "m", "/", "v", ".", "m", "p", "d">>
Mp4Upper == <<"M", "P", "4">>
Vp9Profile == <<"v", "p", "9", ".", "2">>
Avc1 == <<"a", "v", "c", "1">>

VARIABLES
    devices,                  \* self.devices: the addresses of the last scan
    combo_count,              \* device_combo.count()
    current_index,            \* device_combo.currentIndex()
    thread,                   \* self.thread: 0 for None, else a thread slot
    local_cast_process,       \* self.local_cast_process: 0 for None, else a process
    _pending_piped_cast_info, \* self._pending_piped_cast_info
    is_casting,               \* self.is_casting
    local_current_time,       \* self.local_current_time
    local_duration,           \* self.local_duration
    post_cast_poll_attempts,  \* self.post_cast_poll_attempts
    status_timer,             \* status_timer.isActive()
    post_cast_poll_timer,     \* post_cast_poll_timer.isActive()
    playback_timer,           \* playback_timer.isActive()
    status_label,             \* status_label.text()
    volume_slider,            \* volume_slider.value()
    progress_maximum,         \* progress_slider.maximum()
    enabled,                  \* which groups of widgets accept user input
    threads,                  \* the QThread/worker pairs that exist
    queue,                    \* queued signals awaiting the control thread
    procs,                    \* the detached catt processes
    app,                      \* "running", "closed" or "crashed"
    last,                     \* history: the handler that ran last
    call                      \* the call that a specification follows by itself

vars == <<devices, combo_count, current_index, thread, local_cast_process,
          _pending_piped_cast_info, is_casting, local_current_time,
          local_duration, post_cast_poll_attempts, status_timer,
          post_cast_poll_timer, playback_timer, status_label, volume_slider,
          progress_maximum, enabled, threads, queue, procs, app, last, call>>

\* The variables of the window, its threads and its processes.
vars_window ==
    <<devices, combo_count, current_index, thread, local_cast_process,
      _pending_piped_cast_info, is_casting, local_current_time,
      local_duration, post_cast_poll_attempts, status_timer,
      post_cast_poll_timer, playback_timer, status_label, volume_slider,
      progress_maximum, enabled, threads, queue, procs, app, last>>

\* The program state as one record.
World ==
    [devices |-> devices, combo_count |-> combo_count,
     current_index |-> current_index, thread |-> thread,
     local_cast_process |-> local_cast_process,
     _pending_piped_cast_info |-> _pending_piped_cast_info,
     is_casting |-> is_casting, local_current_time |-> local_current_time,
     local_duration |-> local_duration,
     post_cast_poll_attempts |-> post_cast_poll_attempts,
     status_timer |-> status_timer,
     post_cast_poll_timer |-> post_cast_poll_timer,
     playback_timer |-> playback_timer, status_label |-> status_label,
     volume_slider |-> volume_slider, progress_maximum |-> progress_maximum,
     enabled |-> enabled, threads |-> threads, queue |-> queue,
     procs |-> procs, app |-> app, last |-> last]

\* The variables take the values of the record w.
Is(w) ==
    /\ devices = w.devices
    /\ combo_count = w.combo_count
    /\ current_index = w.current_index
    /\ thread = w.thread
    /\ local_cast_process = w.local_cast_process
    /\ _pending_piped_cast_info = w._pending_piped_cast_info
    /\ is_casting = w.is_casting
    /\ local_current_time = w.local_current_time
    /\ local_duration = w.local_duration
    /\ post_cast_poll_attempts = w.post_cast_poll_attempts
    /\ status_timer = w.status_timer
    /\ post_cast_poll_timer = w.post_cast_poll_timer
    /\ playback_timer = w.playback_timer
    /\ status_label = w.status_label
    /\ volume_slider = w.volume_slider
    /\ progress_maximum = w.progress_maximum
    /\ enabled = w.enabled
    /\ threads = w.threads
    /\ queue = w.queue
    /\ procs = w.procs
    /\ app = w.app
    /\ last = w.last

\* The next state is the record w.
Becomes(w) ==
    /\ devices' = w.devices
    /\ combo_count' = w.combo_count
    /\ current_index' = w.current_index
    /\ thread' = w.thread
    /\ local_cast_process' = w.local_cast_process
    /\ _pending_piped_cast_info' = w._pending_piped_cast_info
    /\ is_casting' = w.is_casting
    /\ local_current_time' = w.local_current_time
    /\ local_duration' = w.local_duration
    /\ post_cast_poll_attempts' = w.post_cast_poll_attempts
    /\ status_timer' = w.status_timer
    /\ post_cast_poll_timer' = w.post_cast_poll_timer
    /\ playback_timer' = w.playback_timer
    /\ status_label' = w.status_label
    /\ volume_slider' = w.volume_slider
    /\ progress_maximum' = w.progress_maximum
    /\ enabled' = w.enabled
    /\ threads' = w.threads
    /\ queue' = w.queue
    /\ procs' = w.procs
    /\ app' = w.app
    /\ last' = w.last

\* ------------------------------------------------------- status messages
MsgBusy == "An operation is already in progress."
MsgUnknown == "Action sent, but status is unknown."
MsgIdleReady == "Idle. Ready to cast."
MsgIdleNotResponding == "Device is idle or not responding."
MsgNoDevicesScan == "No devices found. Please scan."
MsgNoDeviceSelected == "No device selected."

\* ------------------------------------------------------ threads, signals
ThreadIds == 1..MaxThreads
ProcIds == 1..MaxProcs

\* No pending relay resolution (self._pending_piped_cast_info is None).
NoInfo == [device_ip |-> 0, cast_mode |-> "none", url |-> <<>>]

FreeThread ==
    [phase |-> "free", kind |-> "none", verb |-> "none", dev |-> 0,
     ref |-> <<>>, local |-> FALSE, disable_ui |-> FALSE,
     on_result |-> "none", on_error |-> "none", proc |-> 0]

\* The text a result signal carries, parsed: the fields of a status text or
\* the devices of a scan.
NoArg ==
    [has_title |-> FALSE, has_volume |-> FALSE, state |-> "none",
     volume |-> 0, time |-> <<>>, lines |-> <<>>]

\* A queued signal of the worker or thread t.  The text it carries is read by
\* its slot alone, and is drawn when the slot runs.
Signal(sig, t) == [sig |-> sig, t |-> t]

\* QThread.isRunning(): from start() until the thread's event loop has
\* returned and its finished signal has been emitted.
isRunning(th) == th.phase \in {"run", "wait", "done", "quit"}

\* The worker object of the thread is executing its run() method.
Working(th) == th.phase \in {"run", "wait"}

\* The handlers whose runs the history variable records.
Traced == {"status_timer", "kill_local_cast_process", "handle_status_update"}

Note(w, op) == [w EXCEPT !.last = IF op \in Traced THEN op ELSE "-"]

\* ------------------------------------------------------------ the widgets
\* get_selected_device_ip(): the address it returns, 0 for None.  Item 0 of
\* the combo is the "Select a device..." placeholder, whose data is None.
selected_ip(w) ==
    IF w.combo_count = 0 THEN 0
    ELSE IF w.current_index < 0 \/ w.devices = <<>> THEN 0
    ELSE IF w.current_index = 0 THEN 0
    ELSE w.devices[w.current_index]

\* get_selected_device_ip(): the state it leaves (it writes the status label
\* in two of its three None cases).
get_selected_device_ip(w) ==
    IF w.combo_count = 0 THEN [w EXCEPT !.status_label = MsgNoDevicesScan]
    ELSE IF w.current_index < 0 \/ w.devices = <<>>
    THEN [w EXCEPT !.status_label = MsgNoDeviceSelected]
    ELSE w

set_playback_controls_enabled(w, on) ==
    [w EXCEPT !.enabled.playback = on, !.enabled.progress = on]

update_control_states(w) ==
    LET is_device_selected == selected_ip(w) # 0
        w1 == get_selected_device_ip(w)
        w2 == [w1 EXCEPT !.enabled.action = is_device_selected,
                         !.enabled.enqueue = is_device_selected /\ w.is_casting]
    IN  set_playback_controls_enabled(w2, is_device_selected /\ w.is_casting)

set_controls_enabled(w, on) ==
    LET w1 == [w EXCEPT !.enabled.nav = on]
    IN  IF on THEN update_control_states(w1)
        ELSE set_playback_controls_enabled(
                 [w1 EXCEPT !.enabled.action = FALSE, !.enabled.enqueue = FALSE],
                 FALSE)

reset_playback_ui(w) ==
    [set_playback_controls_enabled(w, FALSE) EXCEPT
        !.local_current_time = 0, !.progress_maximum = 1, !.volume_slider = 0]

\* An idle transition that leaves the slow status timer running.
_set_idle_state_keeps_timer(w, message) ==
    IF ~w.is_casting /\ w.status_label = message THEN w
    ELSE LET w1 == [w EXCEPT !.is_casting = FALSE, !.playback_timer = FALSE]
             w2 == [reset_playback_ui(w1) EXCEPT !.status_label = message]
         IN  update_control_states(w2)

_set_idle_state(w, message) ==
    IF ~w.is_casting /\ w.status_label = message THEN w
    ELSE LET w1 == [w EXCEPT !.is_casting = FALSE, !.status_timer = FALSE,
                             !.playback_timer = FALSE]
             w2 == [reset_playback_ui(w1) EXCEPT !.status_label = message]
         IN  update_control_states(w2)

\* ------------------------------------------------- starting a worker thread
\* A busy check that asks whether the worker is still executing.
BusyWhileWorking(w) == w.thread # 0 /\ Working(w.threads[w.thread])

\* The busy check of run_catt_command and _get_url_from_piped_and_run:
\* self.thread and self.thread.isRunning().
Busy(w) == w.thread # 0 /\ isRunning(w.threads[w.thread])

FreeSlots(w) == {i \in ThreadIds : w.threads[i].phase = "free"}

\* self.thread = QThread(); ...; self.thread.start().  The thread object that
\* self.thread named before, if any, loses its last reference.
StartThread(w, rec) ==
    LET i == CHOOSE j \in FreeSlots(w) : \A k \in FreeSlots(w) : j <= k
    IN  [w EXCEPT !.threads[i] = rec, !.thread = i]

run_catt_command(w, verb, dev, ref, on_result, on_error, disable_ui, is_local_cast) ==
    IF Busy(w)
    THEN IF ~disable_ui THEN w
         ELSE [w EXCEPT !.status_label = MsgBusy]
    ELSE LET w1 == IF disable_ui THEN set_controls_enabled(w, FALSE) ELSE w
         IN  StartThread(w1,
                 [FreeThread EXCEPT !.phase = "run", !.kind = "catt",
                                    !.verb = verb, !.dev = dev, !.ref = ref,
                                    !.local = is_local_cast,
                                    !.disable_ui = disable_ui,
                                    !.on_result = on_result,
                                    !.on_error = on_error])

\* PipedWorker(video_url, piped_host): the host is where the worker sends its
\* request, and what the relay answers is drawn when the worker ends.
_get_url_from_piped_and_run(w, video_url, piped_host, device_ip, cast_mode) ==
    IF Busy(w)
    THEN [w EXCEPT !.status_label = MsgBusy]
    ELSE LET w1 == [w EXCEPT !._pending_piped_cast_info =
                        [device_ip |-> device_ip, cast_mode |-> cast_mode,
                         url |-> <<>>]]
             w2 == set_controls_enabled(w1, FALSE)
         IN  StartThread(w2,
                 [FreeThread EXCEPT !.phase = "run", !.kind = "piped",
                                    !.verb = "resolve", !.dev = device_ip,
                                    !.ref = video_url,
                                    !.on_result = "on_url_found",
                                    !.on_error = "handle_piped_error"])

\* A status poll that is started like a command of the user (disable_ui=True).
\* A status poll that does not ask whether a device is selected.
request_status_update_unchecked(w) ==
    run_catt_command(get_selected_device_ip(w), "status", selected_ip(w), <<>>,
                     "handle_status_update", "handle_status_error", FALSE, FALSE)

request_status_update_as_command(w) ==
    LET ip == selected_ip(w)
        w1 == get_selected_device_ip(w)
    IN  IF ip = 0 THEN w1
        ELSE run_catt_command(w1, "status", ip, <<>>, "handle_status_update",
                              "handle_status_error", TRUE, FALSE)

request_status_update(w) ==
    LET ip == selected_ip(w)
        w1 == get_selected_device_ip(w)
    IN  IF ip = 0 THEN w1
        ELSE run_catt_command(w1, "status", ip, <<>>, "handle_status_update",
                              "handle_status_error", FALSE, FALSE)

\* ----------------------------------------------------- the detached process
ExitCodeMessage ==
    <<"c", "a", "t", "t", " ", "c", "o", "m", "m", "a", "n", "d", " ", "f",
      "a", "i", "l", "e", "d", " ", "w", "i", "t", "h", " ", "e", "x", "i",
      "t", " ", "c", "o", "d", "e", " ">>
CastingInBackground ==
    <<"C", "a", "s", "t", "i", "n", "g", " ", "l", "o", "c", "a", "l", " ",
      "f", "i", "l", "e", " ", "i", "n", " ", "b", "a", "c", "k", "g", "r",
      "o", "u", "n", "d", ".", ".", ".">>

\* A worker that takes the exit code 0 for success.
_run_local_cast_trusts_exit_code(exited, return_code, stderr) ==
    IF exited /\ return_code # 0
    THEN [sig |-> "error",
          text |-> or_else(strip(stderr),
                           ExitCodeMessage \o <<Digits[return_code + 1]>>)]
    ELSE [sig |-> "result", text |-> CastingInBackground]

\* _run_local_cast, after process_created has been emitted: the signal the
\* worker emits and the text it carries, given whether process.wait returned
\* within the three seconds, and then the exit code and the standard error.
_run_local_cast(exited, return_code, stderr) ==
    IF exited
    THEN [sig |-> "error",
          text |-> or_else(strip(stderr),
                           ExitCodeMessage \o <<Digits[return_code + 1]>>)]
    ELSE [sig |-> "result", text |-> CastingInBackground]

\* A kill that forgets the handle and leaves the process running.
kill_local_cast_process_handle_only(w) == [w EXCEPT !.local_cast_process = 0]

\* SIGTERM to the process group, wait, forget the handle.  The process is
\* taken to end within the two seconds that the handler waits for it.
kill_local_cast_process(w) ==
    IF w.local_cast_process = 0 THEN w
    ELSE [Note(w, "kill_local_cast_process") EXCEPT
             !.procs[w.local_cast_process] = "dead",
             !.local_cast_process = 0]

handle_process_created(w, process) == [w EXCEPT !.local_cast_process = process]

\* ------------------------------------------------------ the poll coordinator
\* A give-up test that compares with >= in place of >.
_poll_status_after_cast_early(w) ==
    LET w1 == [w EXCEPT !.post_cast_poll_attempts = @ + 1]
    IN  IF w1.post_cast_poll_attempts >= MaxAttempts
        THEN _set_idle_state([w1 EXCEPT !.post_cast_poll_timer = FALSE], MsgUnknown)
        ELSE request_status_update(w1)

_poll_status_after_cast(w) ==
    LET w1 == [w EXCEPT !.post_cast_poll_attempts = @ + 1]
    IN  IF w1.post_cast_poll_attempts > MaxAttempts
        THEN _set_idle_state([w1 EXCEPT !.post_cast_poll_timer = FALSE], MsgUnknown)
        ELSE request_status_update(w1)

\* A start of the fast poll that leaves the ticker running.
_start_fast_poll_keeps_ticker(w, message) ==
    _poll_status_after_cast(
        [w EXCEPT !.status_label = message, !.status_timer = FALSE,
                  !.post_cast_poll_attempts = 0,
                  !.post_cast_poll_timer = TRUE])

\* A start of the fast poll that leaves the slow resync timer running.
_start_fast_poll_keeps_resync(w, message) ==
    _poll_status_after_cast(
        [w EXCEPT !.status_label = message,
                  !.playback_timer = FALSE, !.post_cast_poll_attempts = 0,
                  !.post_cast_poll_timer = TRUE])

_start_fast_poll(w, message) ==
    _poll_status_after_cast(
        [w EXCEPT !.status_label = message, !.status_timer = FALSE,
                  !.playback_timer = FALSE, !.post_cast_poll_attempts = 0,
                  !.post_cast_poll_timer = TRUE])

handle_cast_success(w) == _start_fast_poll(w, "Cast sent. Confirming playback...")

on_refresh_clicked(w) ==
    LET w1 == get_selected_device_ip(w)
    IN  IF selected_ip(w) = 0 THEN w1
        ELSE _start_fast_poll(w1, "Refreshing status...")

update_local_progress(w) ==
    IF ~w.is_casting THEN [w EXCEPT !.playback_timer = FALSE]
    ELSE LET t == w.local_current_time + 1
         IN  [w EXCEPT !.local_current_time = t,
                       !.playback_timer =
                           IF w.local_duration > 0 /\ t >= w.local_duration
                           THEN FALSE ELSE @]

\* A conversion that reads the components as decimal places.
seconds_of_hundreds(hms) ==
    IF Len(hms) # 3 \/ \E i \in 1..Len(hms) : hms[i] = <<>> THEN <<>>
    ELSE <<hms[1][1] * 10000 + hms[2][1] * 100 + hms[3][1]>>

\* h, m, s = map(int, text.split(":")): <<>> where the unpacking or int
\* raises ValueError, and otherwise h * 3600 + m * 60 + s.
seconds_of(hms) ==
    IF Len(hms) # 3 \/ \E i \in 1..Len(hms) : hms[i] = <<>> THEN <<>>
    ELSE <<hms[1][1] * 3600 + hms[2][1] * 60 + hms[3][1]>>

ints(parts) == [i \in 1..Len(parts) |-> int(parts[i])]

seconds(text) == seconds_of(ints(split(text, <<":">>)))

\* The try block of handle_status_update: current_time and duration, <<>> for
\* None.  What raises in the first component leaves both None; what raises
\* in the second leaves the duration None.
time_of(current_time, time_parts) ==
    [current_time |-> current_time,
     duration |-> IF current_time # <<>> /\ Len(time_parts) > 1
                  THEN seconds(split(time_parts[2], <<" ">>)[1])
                  ELSE <<>>]

time_of_parts(time_parts) == time_of(seconds(time_parts[1]), time_parts)

parse_time(time) ==
    IF time = <<>> THEN [current_time |-> <<>>, duration |-> <<>>]
    ELSE time_of_parts(split(time, <<" ", "/", " ">>))

\* The progress part of handle_status_update.
apply_progress(w, tm, was_casting) ==
    IF tm.duration = <<>> \/ tm.duration[1] <= 0
    THEN [w EXCEPT !.local_duration = 0,
                   !.local_current_time = IF was_casting THEN @ ELSE 0,
                   !.enabled.progress = FALSE]
    ELSE [w EXCEPT !.local_duration = tm.duration[1],
                   !.local_current_time =
                       IF tm.current_time # <<>> THEN tm.current_time[1] ELSE 0,
                   !.enabled.progress = TRUE,
                   !.progress_maximum = tm.duration[1]]

\* The part of handle_status_update that follows the title check: player
\* state, volume and progress.
apply_status(w, out, was_casting) ==
    apply_progress(
        [w EXCEPT !.status_label = out.state \o ": title",
                  !.playback_timer = (out.state = "Playing"),
                  !.volume_slider = IF out.has_volume THEN out.volume ELSE 0],
        parse_time(out.time), was_casting)

\* A slot that takes a text without a title for idle while confirming too.
handle_status_update_idle_while_confirming(w, out) ==
    IF ~out.has_title
    THEN IF out.has_volume
         THEN [_set_idle_state(w, MsgIdleReady) EXCEPT !.volume_slider = out.volume]
         ELSE _set_idle_state(w, MsgIdleNotResponding)
    ELSE LET w1 == [w EXCEPT !.post_cast_poll_timer = FALSE]
             w2 == IF ~w1.is_casting
                   THEN [update_control_states([w1 EXCEPT !.is_casting = TRUE])
                            EXCEPT !.status_timer = TRUE]
                   ELSE w1
         IN  apply_status(w2, out, w.is_casting)

\* A title branch that leaves the fast-poll timer running.
handle_status_update_keeps_polling(w, out) ==
    IF ~out.has_title THEN w
    ELSE apply_status(
             [update_control_states([w EXCEPT !.is_casting = TRUE])
                 EXCEPT !.status_timer = TRUE], out, w.is_casting)

handle_status_update(w, out) ==
    IF ~out.has_title
    THEN IF w.post_cast_poll_timer THEN w
         ELSE IF out.has_volume
         THEN [_set_idle_state(w, MsgIdleReady) EXCEPT !.volume_slider = out.volume]
         ELSE _set_idle_state(w, MsgIdleNotResponding)
    ELSE LET w1 == [w EXCEPT !.post_cast_poll_timer = FALSE]
             w2 == IF ~w1.is_casting
                   THEN [update_control_states([w1 EXCEPT !.is_casting = TRUE])
                            EXCEPT !.status_timer = TRUE]
                   ELSE w1
         IN  apply_status(w2, out, w.is_casting)

\* A slot that looks for the phrases in any letter case.
handle_status_error_any_case(w, err) ==
    IF contains(lower(err), lower(INACTIVE))
          \/ contains(lower(err), lower(NOTHING_PLAYING))
    THEN _set_idle_state(w, MsgIdleReady)
    ELSE w

handle_status_error(w, err) ==
    IF contains(err, INACTIVE) \/ contains(err, NOTHING_PLAYING)
    THEN _set_idle_state(w, MsgIdleReady)
    ELSE w

handle_command_error(w) == [w EXCEPT !.status_label = "Error"]

\* ------------------------------------------------------- device selection
\* A device change that leaves the ticker running.
on_device_changed_keeps_ticker(w) ==
    LET w1 == [w EXCEPT !.post_cast_poll_timer = FALSE, !.status_timer = FALSE,
                        !.is_casting = FALSE]
        w2 == update_control_states(reset_playback_ui(w1))
        w3 == get_selected_device_ip(w2)
    IN  IF selected_ip(w2) # 0
        THEN request_status_update(
                 [w3 EXCEPT !.status_label = "Checking device status..."])
        ELSE [w3 EXCEPT !.status_label = "Please select a device."]

on_device_changed(w) ==
    LET w1 == [w EXCEPT !.post_cast_poll_timer = FALSE, !.status_timer = FALSE,
                        !.playback_timer = FALSE, !.is_casting = FALSE]
        w2 == update_control_states(reset_playback_ui(w1))
        w3 == get_selected_device_ip(w2)
    IN  IF selected_ip(w2) # 0
        THEN request_status_update(
                 [w3 EXCEPT !.status_label = "Checking device status..."])
        ELSE [w3 EXCEPT !.status_label = "Please select a device."]

scan_devices(w) ==
    run_catt_command([w EXCEPT !.status_label = "Scanning for devices..."],
                     "scan", 0, <<>>, "handle_scan_result",
                     "handle_command_error", TRUE, FALSE)

\* The addresses of the non-empty lines that split(" - ") cuts into at least
\* two parts, in the order of the lines.
RECURSIVE scanned_devices(_)
scanned_devices(lines) ==
    IF lines = <<>> THEN <<>>
    ELSE LET parts == split(Head(lines), <<" ", "-", " ">>)
         IN  (IF Head(lines) # <<>> /\ Len(parts) >= 2
              THEN <<to_number(strip(parts[1]), 0)>> ELSE <<>>)
                 \o scanned_devices(Tail(lines))

\* A slot that appends the devices of the scan to those it has.
handle_scan_result_appends(w, lines) ==
    LET devs == w.devices \o scanned_devices(lines)
    IN  on_device_changed(
            [w EXCEPT !.devices = devs, !.combo_count = 1 + Len(devs),
                      !.current_index = 0,
                      !.status_label = IF devs = <<>> THEN "No devices found."
                                       ELSE "Found device(s)."])

\* lines: output.splitlines()
handle_scan_result(w, lines) ==
    LET devs == scanned_devices(lines)
    IN  on_device_changed(
            [w EXCEPT !.devices = devs, !.combo_count = 1 + Len(devs),
                      !.current_index = 0,
                      !.status_label = IF devs = <<>> THEN "No devices found."
                                       ELSE "Found device(s)."])

\* ------------------------------------------------------------ user commands
\* input: the text of the input box, whether os.path.exists holds of it once
\* stripped, and what extract_video_id yields of it once stripped, which is
\* computed once for each text that is entered; host: the text of the relay
\* host box.
cast_media(w, input, piped_checked, host) ==
    LET ip == selected_ip(w)
        w1 == get_selected_device_ip(w)
        media == strip(input.text)
        is_youtube_url == input.video_id # <<>>
        piped_host == strip(host)
    IN  IF ip = 0 THEN w1
        ELSE IF media = <<>>
        THEN [w1 EXCEPT !.status_label = "Enter a URL or file path."]
        ELSE IF piped_checked /\ is_youtube_url
        THEN IF piped_host = <<>>
             THEN [w1 EXCEPT !.status_label = "Piped API Hostname is required."]
             ELSE _get_url_from_piped_and_run(
                      [w1 EXCEPT !.status_label = "Getting direct URL from Piped..."],
                      media, piped_host, ip, "cast")
        ELSE LET is_local_file == input.exists
                 w2 == IF is_local_file THEN kill_local_cast_process(w1) ELSE w1
             IN  run_catt_command([w2 EXCEPT !.status_label = "Casting..."],
                                  "cast", ip, media, "handle_cast_success",
                                  "handle_command_error", TRUE, is_local_file)

\* An error slot that leaves the pending record in place.
handle_piped_error_keeps_info(w) ==
    set_controls_enabled([w EXCEPT !.status_label = "Piped Error"], TRUE)

handle_piped_error(w) ==
    set_controls_enabled(
        [w EXCEPT !.status_label = "Piped Error",
                  !._pending_piped_cast_info = NoInfo], TRUE)

cast_site(w, input) ==
    LET ip == selected_ip(w)
        w1 == get_selected_device_ip(w)
        url == strip(input.text)
    IN  IF ip = 0 THEN w1
        ELSE IF url = <<>>
        THEN [w1 EXCEPT !.status_label = "Enter a URL to cast as a site."]
        ELSE run_catt_command([w1 EXCEPT !.status_label = "Casting site..."],
                              "cast_site", ip, url, "site_text",
                              "handle_command_error", TRUE, FALSE)

\* A stop that leaves the slow resync timer running.
stop_media_keeps_resync(w) ==
    LET w0 == kill_local_cast_process(w)
        ip == selected_ip(w0)
        w1 == get_selected_device_ip(w0)
    IN  IF ip = 0 THEN w1
        ELSE LET w2 == [w1 EXCEPT !.post_cast_poll_timer = FALSE,
                                  !.playback_timer = FALSE, !.is_casting = FALSE]
                 w3 == [reset_playback_ui(w2) EXCEPT
                            !.status_label = "Stopping playback..."]
             IN  run_catt_command(w3, "stop", ip, <<>>, "stop_text",
                                  "handle_command_error", TRUE, FALSE)

stop_media(w) ==
    LET w0 == kill_local_cast_process(w)
        ip == selected_ip(w0)
        w1 == get_selected_device_ip(w0)
    IN  IF ip = 0 THEN w1
        ELSE LET w2 == [w1 EXCEPT !.post_cast_poll_timer = FALSE,
                                  !.status_timer = FALSE,
                                  !.playback_timer = FALSE, !.is_casting = FALSE]
                 w3 == [reset_playback_ui(w2) EXCEPT
                            !.status_label = "Stopping playback..."]
             IN  run_catt_command(w3, "stop", ip, <<>>, "stop_text",
                                  "handle_command_error", TRUE, FALSE)

set_volume(w, level) ==
    LET ip == selected_ip(w)
        w1 == get_selected_device_ip([w EXCEPT !.volume_slider = level])
    IN  IF ip = 0 THEN w1
        ELSE run_catt_command(w1, "volume", ip, <<>>, "request_status_update",
                              "handle_command_error", FALSE, FALSE)

seek_media(w, position) ==
    LET ip == selected_ip(w)
        w1 == get_selected_device_ip(w)
    IN  IF ip = 0 THEN w1
        ELSE run_catt_command([w1 EXCEPT !.local_current_time = position],
                              "seek", ip, <<>>, "request_status_update",
                              "handle_command_error", FALSE, FALSE)

enqueue_media(w, input, piped_checked, host) ==
    LET ip == selected_ip(w)
        w1 == get_selected_device_ip(w)
        media == strip(input.text)
        is_youtube_url == input.video_id # <<>>
        piped_host == strip(host)
    IN  IF ip = 0 THEN w1
        ELSE IF media = <<>>
        THEN [w1 EXCEPT !.status_label = "Enter a URL to enqueue."]
        ELSE IF piped_checked /\ is_youtube_url
        THEN IF piped_host = <<>>
             THEN [w1 EXCEPT !.status_label = "Piped API Hostname is required."]
             ELSE _get_url_from_piped_and_run(
                      [w1 EXCEPT !.status_label = "Getting direct URL from Piped..."],
                      media, piped_host, ip, "add")
        ELSE run_catt_command([w1 EXCEPT !.status_label = "Enqueuing..."],
                              "add", ip, media, "enqueue_text",
                              "handle_command_error", TRUE, FALSE)

_run_quick_action_command(w, action) ==
    LET ip == selected_ip(w)
        w1 == get_selected_device_ip(w)
    IN  IF ip = 0 THEN w1
        ELSE run_catt_command(w1, action, ip, <<>>, "_start_fast_poll",
                              "handle_command_error", FALSE, FALSE)

\* ------------------------------------------------- the end of a worker thread
\* The fields of a window that exists no more.
Gone ==
    [devices |-> <<>>, combo_count |-> 0, current_index |-> -1,
     thread |-> 0, local_cast_process |-> 0,
     _pending_piped_cast_info |-> NoInfo, is_casting |-> FALSE,
     local_current_time |-> 0, local_duration |-> 0,
     post_cast_poll_attempts |-> 0, status_timer |-> FALSE,
     post_cast_poll_timer |-> FALSE, playback_timer |-> FALSE,
     status_label |-> "", volume_slider |-> 0, progress_maximum |-> 1,
     enabled |-> [nav |-> FALSE, action |-> FALSE, enqueue |-> FALSE,
                  playback |-> FALSE, progress |-> FALSE],
     threads |-> [i \in ThreadIds |-> FreeThread], queue |-> <<>>,
     procs |-> [p \in ProcIds |-> "free"], app |-> "closed",
     last |-> "-"]

\* The process ends: the window, every thread of the application and the
\* queued signals end with it.  Detached processes live on.
Terminated(w, how) ==
    [Gone EXCEPT !.app = how, !.procs = w.procs, !.last = w.last]

\* `self.thread = None` drops the last reference to the QThread object that
\* self.thread names.  The object was constructed without a parent
\* (self.thread = QThread()), so it is destroyed with its last reference, and
\* Qt aborts the process when a QThread is destroyed while it is running.
DestroyedWhileRunning(w) == w.thread # 0 /\ isRunning(w.threads[w.thread])

_on_thread_finished(w) ==
    IF DestroyedWhileRunning(w) THEN Terminated(w, "crashed")
    ELSE [w EXCEPT !.thread = 0]

_on_piped_thread_finished(w) ==
    IF DestroyedWhileRunning(w) THEN Terminated(w, "crashed")
    ELSE LET w1 == [w EXCEPT !.thread = 0]
             cast_info == w._pending_piped_cast_info
             w2 == [w1 EXCEPT !._pending_piped_cast_info = NoInfo]
         IN  IF cast_info = NoInfo THEN w1
             ELSE IF cast_info.url = <<>> THEN w2
             ELSE IF cast_info.cast_mode = "cast"
             THEN run_catt_command(
                      [kill_local_cast_process(w2) EXCEPT !.status_label = "Casting..."],
                      "cast", cast_info.device_ip, cast_info.url,
                      "handle_cast_success", "handle_command_error", TRUE, FALSE)
             ELSE run_catt_command(
                      [w2 EXCEPT !.status_label = "Enqueuing..."],
                      "add", cast_info.device_ip, cast_info.url,
                      "enqueue_text", "handle_command_error", TRUE, FALSE)

closeEvent(w) == Terminated(kill_local_cast_process(w), "closed")

\* on_url_found, the closure of _get_url_from_piped_and_run.
on_url_found(w, url) ==
    IF w._pending_piped_cast_info # NoInfo
    THEN [w EXCEPT !._pending_piped_cast_info.url = url]
    ELSE w

\* Result slots of which the one of an enqueue starts a confirming cycle.
on_result_enqueue_confirms(w, h, arg) ==
    CASE h = "handle_scan_result" -> handle_scan_result(w, arg.lines)
      [] h = "handle_cast_success" -> handle_cast_success(w)
      [] h = "handle_status_update" -> handle_status_update(w, arg)
      [] h = "site_text" -> [w EXCEPT !.status_label = "Successfully cast site."]
      [] h = "stop_text" -> [w EXCEPT !.status_label = "Playback stopped."]
      [] h = "enqueue_text" -> _start_fast_poll(w, "Enqueued.")
      [] h = "request_status_update" -> request_status_update(w)
      [] h = "_start_fast_poll" -> _start_fast_poll(w, "Confirming action...")
      [] h = "on_url_found" -> on_url_found(w, DirectUrl)

\* The slot connected to worker.result / piped_worker_obj.url_found.
on_result(w, h, arg) ==
    CASE h = "handle_scan_result" -> handle_scan_result(w, arg.lines)
      [] h = "handle_cast_success" -> handle_cast_success(w)
      [] h = "handle_status_update" -> handle_status_update(w, arg)
      [] h = "site_text" -> [w EXCEPT !.status_label = "Successfully cast site."]
      [] h = "stop_text" -> [w EXCEPT !.status_label = "Playback stopped."]
      [] h = "enqueue_text" -> [w EXCEPT !.status_label = "Enqueued."]
      [] h = "request_status_update" -> request_status_update(w)
      [] h = "_start_fast_poll" -> _start_fast_poll(w, "Confirming action...")
      [] h = "on_url_found" -> on_url_found(w, DirectUrl)

\* The slot connected to worker.error / piped_worker_obj.error.
on_error(w, h, arg) ==
    CASE h = "handle_command_error" -> handle_command_error(w)
      [] h = "handle_status_error" -> handle_status_error(w, arg)
      [] h = "handle_piped_error" -> handle_piped_error(w)

\* ----------------------------------------------------------- the processes
\* A process that has exited and that nothing refers to any more is forgotten.
Referenced(w, p) ==
    \/ w.local_cast_process = p
    \/ \E i \in ThreadIds : w.threads[i].phase = "wait" /\ w.threads[i].proc = p
    \/ \E k \in 1..Len(w.queue) :
          /\ w.queue[k].sig = "process_created"
          /\ w.threads[w.queue[k].t].proc = p

Reap(w) ==
    [w EXCEPT !.procs = [p \in ProcIds |->
        IF w.procs[p] = "dead" /\ ~Referenced(w, p) THEN "free" ELSE w.procs[p]]]

\* post_cast_poll_attempts is read by _poll_status_after_cast alone, which
\* runs on a timeout of the fast-poll timer or right after _start_fast_poll
\* has reset the counter: what it holds while the timer is stopped is never
\* read, and is not kept.
\* local_duration is read by update_local_progress alone, past its test of
\* is_casting, and is_casting is set by handle_status_update alone, which
\* writes local_duration in the same call: what it holds while the session is
\* Idle is never read, and is not kept.
\* _pending_piped_cast_info is read by on_url_found, handle_piped_error and
\* _on_piped_thread_finished, all slots of a relay thread, and is overwritten
\* by _get_url_from_piped_and_run before it starts one: while no relay thread
\* exists the fields of a record left behind are never read, and only the
\* fact that a record is left is kept.
\* Of a thread whose worker has returned and whose result or error has been
\* handled, only the slot connected to thread.finished is still to run, and
\* it depends on the kind of the thread alone.
Settled(w, i) ==
    /\ w.threads[i].phase \in {"done", "quit", "finished"}
    /\ \A k \in 1..Len(w.queue) :
          w.queue[k].t = i => w.queue[k].sig \in {"quit", "enable", "thread_finished"}

Forget(w) ==
    [w EXCEPT
       !.post_cast_poll_attempts = IF w.post_cast_poll_timer THEN @ ELSE 0,
       !.local_duration = IF w.is_casting THEN @ ELSE 0,
       !._pending_piped_cast_info =
           IF @ = NoInfo \/ \E i \in ThreadIds : w.threads[i].kind = "piped"
           THEN @
           ELSE [device_ip |-> 0, cast_mode |-> "left", url |-> <<>>],
       !.threads = [i \in ThreadIds |->
           IF Settled(w, i)
           THEN [FreeThread EXCEPT !.phase = w.threads[i].phase,
                                   !.kind = w.threads[i].kind]
           ELSE w.threads[i]]]

\* The thread objects have no identity beyond the references held to them:
\* the older of the live threads is kept in the lower slot.
Renamed(w, f) ==
    [w EXCEPT !.threads = [i \in ThreadIds |-> w.threads[f[i]]],
              !.thread = IF w.thread = 0 THEN 0 ELSE f[w.thread],
              !.queue = [k \in 1..Len(w.queue) |->
                            [w.queue[k] EXCEPT !.t = f[w.queue[k].t]]]]

Compact(w) ==
    IF w.threads[1].phase = "free" /\ w.threads[2].phase # "free"
    THEN Renamed(w, [i \in ThreadIds |-> IF i = 1 THEN 2 ELSE IF i = 2 THEN 1 ELSE i])
    ELSE w

\* A step of the control thread that leaves the window as w, beside a step c
\* of the call that is followed.
Step(w, c) == Becomes(Forget(Reap(Compact(w)))) /\ call' = c

Do(w) == Step(w, call)

\* ------------------------------------------------------------------- inputs
\* What the input box holds when a button is clicked, and whether the relay
\* box is checked: a watch URL with the relay, the path of a local file, or a
\* URL that extract_video_id does not recognise.
Input(text, exists) ==
    [text |-> text, exists |-> exists,
     video_id |-> extract_video_id(strip(text))]

WatchUrl == Https \o WwwYoutubeCom \o WatchV \o VideoId
OtherUrl == Https \o ExampleCom \o WatchV \o VideoId
CastSiteInput == Input(OtherUrl, FALSE)
CastInputs ==
    {<<Input(WatchUrl, FALSE), TRUE>>, <<Input(LocalPath, TRUE), FALSE>>,
     <<Input(OtherUrl, FALSE), FALSE>>}
EnqueueInputs == {<<Input(WatchUrl, FALSE), TRUE>>, <<Input(OtherUrl, FALSE), FALSE>>}
\* One of the seven quick transport actions, which differ only in the
\* argument vector they hand to _run_quick_action_command.
QuickActions == {"play_toggle"}
\* The volume a status text reports, and the level the user drags to.
Volumes == {50}

\* What a scan can print: the line that announces the scan, an empty line,
\* and one line "IP - Name - Model" for each of n devices.  A device address
\* is named by a number, written in decimal on its line.
ScanHeader == <<"s", "c", "a", "n", ".", ".", ".">>
DeviceLine(i) ==
    <<Digits[i + 1]>> \o <<" ", "-", " ", "n", " ", "-", " ", "m">>

ScanLines(n) == <<ScanHeader, <<>>>> \o [i \in 1..n |-> DeviceLine(i)]
ScanOutputs == {[lines |-> ScanLines(n)] : n \in 0..MaxDevices}

\* What a status text can hold, after the key/value parse.
\* The text H:MM:SS of n seconds, and the time value of elapsed / total.
TwoDigits(n) == <<Digits[(n \div 10) + 1], Digits[(n % 10) + 1]>>

Clock(n) ==
    <<Digits[(n \div 3600) + 1], ":">> \o TwoDigits((n % 3600) \div 60)
        \o <<":">> \o TwoDigits(n % 60)

TimeText(cur, dur) == Clock(cur) \o <<" ", "/", " ">> \o Clock(dur)

\* The time field of a status text with a title: elapsed / total, the total
\* known.  (Texts without a time, with a total of zero or with a malformed
\* time are the inputs of StatusSpec.)
TimeFields ==
    {TimeText(tm[1], tm[2]) :
        tm \in {t \in (0..MaxTime) \X (1..MaxTime) : t[1] < t[2]}}

StatusOutputs ==
    {[NoArg EXCEPT !.has_volume = v, !.volume = IF v THEN 50 ELSE 0] :
        v \in BOOLEAN}
    \cup {[NoArg EXCEPT !.has_title = TRUE, !.has_volume = TRUE, !.volume = 50,
                        !.state = st, !.time = tm] :
            st \in {"Playing", "Paused"}, tm \in TimeFields}

Outputs(verb) ==
    IF verb = "scan" THEN {[NoArg EXCEPT !.lines = o.lines] : o \in ScanOutputs}
    ELSE IF verb = "status" THEN StatusOutputs
    ELSE {NoArg}

\* The exit codes and the standard error of a local cast that has exited.
ExitCodes == {0, 1}
StderrBoom == <<" ", "b", "o", "o", "m", " ">>
StderrTexts == {<<>>, <<" ">>, StderrBoom}

\* The error texts the handlers tell apart.
ErrInactive ==
    <<"E", "r", "r", "o", "r", ":", " ", "C", "h", "r", "o", "m", "e", "c",
      "a", "s", "t", " ", "i", "s", " ", "i", "n", "a", "c", "t", "i", "v",
      "e", ".">>
ErrTimedOut ==
    <<"E", "r", "r", "o", "r", ":", " ", "c", "o", "n", "n", "e", "c", "t",
      "i", "o", "n", " ", "t", "i", "m", "e", "d", " ", "o", "u", "t">>

Errors(verb) ==
    IF verb = "status" THEN {ErrInactive, ErrTimedOut} ELSE {ErrTimedOut}

\* ------------------------------------------------------------ initial state
\* The window after initUI(): reset_playback_ui(), update_control_states().
Constructed ==
    update_control_states(
        [devices |-> <<>>, combo_count |-> 0, current_index |-> -1,
         thread |-> 0, local_cast_process |-> 0,
         _pending_piped_cast_info |-> NoInfo, is_casting |-> FALSE,
         local_current_time |-> 0, local_duration |-> 0,
         post_cast_poll_attempts |-> 0, status_timer |-> FALSE,
         post_cast_poll_timer |-> FALSE, playback_timer |-> FALSE,
         status_label |-> "Welcome!", volume_slider |-> 0,
         progress_maximum |-> 1,
         enabled |-> [nav |-> TRUE, action |-> TRUE, enqueue |-> TRUE,
                      playback |-> FALSE, progress |-> FALSE],
         threads |-> [i \in ThreadIds |-> FreeThread], queue |-> <<>>,
         procs |-> [p \in ProcIds |-> "free"], app |-> "running",
         last |-> "-"])

\* __init__ ends in check_catt_availability(), which starts the first scan.
NoCall == [pc |-> "none"]

Init == Is(scan_devices(Constructed)) /\ call = NoCall

\* ------------------------------------------------ actions of the control thread
\* The control thread is alive, and a thread slot is left for the worker that
\* the handler starts unless it finds the window busy.
Ready == app = "running" /\ (Busy(World) \/ FreeSlots(World) # {})

Rescan ==
    /\ Ready /\ enabled.nav
    /\ Do(scan_devices(Note(World, "scan_devices")))

SelectDevice ==
    /\ Ready /\ enabled.nav /\ combo_count > 0
    /\ \E i \in 0..Len(devices) :
        /\ i # current_index
        /\ Do(on_device_changed(
               [Note(World, "on_device_changed") EXCEPT !.current_index = i]))

Cast ==
    /\ Ready /\ enabled.action
    /\ \E in \in CastInputs :
        Do(cast_media(Note(World, "cast_media"), in[1], in[2], PIPED_INSTANCE))

CastSite ==
    /\ Ready /\ enabled.action
    /\ Do(cast_site(Note(World, "cast_site"), CastSiteInput))

Enqueue ==
    /\ Ready /\ enabled.enqueue
    /\ \E in \in EnqueueInputs :
        Do(enqueue_media(Note(World, "enqueue_media"), in[1], in[2], PIPED_INSTANCE))

Stop ==
    /\ Ready /\ enabled.action
    /\ Do(stop_media(Note(World, "stop_media")))

Refresh ==
    /\ Ready /\ enabled.action
    /\ Do(on_refresh_clicked(Note(World, "on_refresh_clicked")))

QuickAction ==
    /\ Ready /\ enabled.playback
    /\ \E a \in QuickActions :
        Do(_run_quick_action_command(Note(World, "_run_quick_action_command"), a))

SetVolume ==
    /\ Ready /\ enabled.playback
    /\ \E level \in Volumes : Do(set_volume(Note(World, "set_volume"), level))

Seek ==
    /\ Ready /\ enabled.progress
    /\ \E position \in 0..progress_maximum :
        Do(seek_media(Note(World, "seek_media"), position))

Close ==
    /\ app = "running"
    /\ Do(closeEvent(Note(World, "closeEvent")))

StatusTimerTick ==
    /\ Ready /\ status_timer
    /\ Do(request_status_update(Note(World, "status_timer")))

FastPollTick ==
    /\ Ready /\ post_cast_poll_timer
    /\ Do(_poll_status_after_cast(Note(World, "post_cast_poll_timer")))

PlaybackTick ==
    /\ Ready /\ playback_timer
    /\ is_casting
          => \/ local_current_time < MaxTime
             \/ local_duration > 0 /\ local_current_time <= local_duration
    /\ Do(update_local_progress(Note(World, "playback_timer")))

\* The control thread handles the signal at the head of its queue.
Pending(sig) == app = "running" /\ queue # <<>> /\ Head(queue).sig = sig
Popped(op) == Note([World EXCEPT !.queue = Tail(queue)], op)

DeliverResult ==
    /\ Pending("result") /\ Ready
    /\ LET h == threads[Head(queue).t].on_result
       IN  \E arg \in Outputs(threads[Head(queue).t].verb) :
               Do(on_result(Popped(h), h, arg))

DeliverError ==
    /\ Pending("error")
    /\ LET h == threads[Head(queue).t].on_error
       IN  \E err \in Errors(threads[Head(queue).t].verb) :
               Do(on_error(Popped(h), h, err))

DeliverProcessCreated ==
    /\ Pending("process_created")
    /\ Do(handle_process_created(Popped("handle_process_created"),
                                 threads[Head(queue).t].proc))

\* worker.finished -> thread.quit: the thread's event loop is told to return.
DeliverQuit ==
    /\ Pending("quit")
    /\ Do([Popped("quit") EXCEPT !.threads[Head(queue).t].phase = "quit"])

\* worker.finished -> lambda: self.set_controls_enabled(True).
DeliverEnable ==
    /\ Pending("enable")
    /\ Do(set_controls_enabled(Popped("set_controls_enabled"), TRUE))

\* thread.finished -> _on_thread_finished / _on_piped_thread_finished; the
\* thread object is deleted afterwards (thread.deleteLater).
DeliverThreadFinished ==
    /\ Pending("thread_finished")
    /\ LET t == Head(queue).t
           w1 == [Popped("thread_finished") EXCEPT !.threads[t] = FreeThread]
       IN  Do(IF threads[t].kind = "piped" THEN _on_piped_thread_finished(w1)
              ELSE _on_thread_finished(w1))

\* The thread object was destroyed when self.thread was overwritten: its
\* connections are gone, and a build may drop the signal still in the queue.
DiscardThreadFinished ==
    /\ Pending("thread_finished")
    /\ Head(queue).t # thread
    /\ Do([Popped("discarded") EXCEPT !.threads[Head(queue).t] = FreeThread])

\* ------------------------------------------------ actions of the worker threads
\* The signals a worker emits when run() returns: its outcome, then finished,
\* which is connected to thread.quit and, for a command that disabled the
\* controls, to the lambda that enables them again.
\* A worker that emits error after result, and finished after both.
Emit_result_and_error(w, t, sig) ==
    LET th == w.threads[t]
    IN  [w EXCEPT
           !.last = "-",
           !.queue = @ \o <<Signal(sig, t)>>
                       \o (IF sig = "result" THEN <<Signal("error", t)>>
                           ELSE <<>>)
                       \o <<Signal("quit", t)>>
                       \o IF th.disable_ui THEN <<Signal("enable", t)>>
                          ELSE <<>>,
           !.threads[t].phase = "done"]

Emit(w, t, sig) ==
    LET th == w.threads[t]
    IN  [w EXCEPT
           !.last = "-",
           !.queue = @ \o <<Signal(sig, t), Signal("quit", t)>>
                       \o IF th.disable_ui THEN <<Signal("enable", t)>>
                          ELSE <<>>,
           !.threads[t].phase = "done"]

\* _run_blocking_command: catt exits with status 0.
WorkerResult ==
    \E t \in ThreadIds :
        /\ threads[t].phase = "run" /\ threads[t].kind = "catt"
        /\ ~threads[t].local
        /\ Do(Emit(World, t, "result"))

\* _run_blocking_command / _run_local_cast: catt is missing, exits with a
\* nonzero status, or another exception is raised.
WorkerError ==
    \E t \in ThreadIds :
        /\ threads[t].phase = "run" /\ threads[t].kind = "catt"
        /\ Do(Emit(World, t, "error"))

\* _run_local_cast: Popen succeeds; process_created is emitted.
LocalSpawn ==
    \E t \in ThreadIds :
        /\ threads[t].phase = "run" /\ threads[t].local
        /\ \E p \in ProcIds :
            /\ procs[p] = "free"
            /\ \A q \in ProcIds : procs[q] = "free" => p <= q
            /\ Do([World EXCEPT
                     !.last = "-", !.procs[p] = "alive",
                     !.threads[t].phase = "wait", !.threads[t].proc = p,
                     !.queue = @ \o <<Signal("process_created", t)>>])

\* _run_local_cast: process.wait(timeout=3) returns, the process has exited
\* with some exit code and some text on its standard error.
LocalFailedFast ==
    \E t \in ThreadIds :
        /\ threads[t].phase = "wait" /\ procs[threads[t].proc] = "dead"
        /\ \E return_code \in ExitCodes, stderr \in StderrTexts :
              Do(Emit(World, t, _run_local_cast(TRUE, return_code, stderr).sig))

\* _run_local_cast: process.wait(timeout=3) raises TimeoutExpired.
LocalStillRunning ==
    \E t \in ThreadIds :
        /\ threads[t].phase = "wait" /\ procs[threads[t].proc] = "alive"
        /\ Do(Emit(World, t, _run_local_cast(FALSE, 0, <<>>).sig))

\* PipedWorker.run: get_best_piped_url returns a URL.
PipedFound ==
    \E t \in ThreadIds :
        /\ threads[t].phase = "run" /\ threads[t].kind = "piped"
        /\ Do(Emit(World, t, "result"))

\* PipedWorker.run: get_best_piped_url raises.
PipedFailed ==
    \E t \in ThreadIds :
        /\ threads[t].phase = "run" /\ threads[t].kind = "piped"
        /\ Do(Emit(World, t, "error"))

\* The event loop of the thread returns: thread.finished is emitted and
\* isRunning() turns false.
ThreadExits ==
    \E t \in ThreadIds :
        /\ threads[t].phase = "quit"
        /\ Do([World EXCEPT
                 !.last = "-", !.threads[t].phase = "finished",
                 !.queue = @ \o <<Signal("thread_finished", t)>>])

\* A detached catt process exits by itself.
ProcExits ==
    \E p \in ProcIds :
        /\ procs[p] = "alive"
        /\ Do([World EXCEPT !.last = "-", !.procs[p] = "dead"])

Next ==
    \/ Rescan \/ SelectDevice \/ Cast \/ CastSite \/ Enqueue \/ Stop
    \/ Refresh \/ QuickAction \/ SetVolume \/ Seek \/ Close
    \/ StatusTimerTick \/ FastPollTick \/ PlaybackTick
    \/ DeliverResult \/ DeliverError \/ DeliverProcessCreated \/ DeliverQuit
    \/ DeliverEnable \/ DeliverThreadFinished \/ DiscardThreadFinished
    \/ WorkerResult \/ WorkerError \/ LocalSpawn \/ LocalFailedFast
    \/ LocalStillRunning \/ PipedFound \/ PipedFailed \/ ThreadExits
    \/ ProcExits

Spec == Init /\ [][Next]_vars

\* ====================================================== the relay, by itself
\* A second specification runs the decision of cast_media / enqueue_media and
\* the steps of get_best_piped_url over many references and relay answers,
\* from a window that is idle or playing with a device selected.

\* The worker of self.thread has ended and the slots of its signals have run.
Quiet(w) ==
    [w EXCEPT !.thread = 0, !.threads = [i \in ThreadIds |-> FreeThread],
              !.queue = <<>>]

\* The window after the first scan has found one device.
Scanned ==
    Quiet(set_controls_enabled(
              handle_scan_result(scan_devices(Constructed), ScanLines(1)), TRUE))

\* The device is selected, and its first status poll is answered: with the
\* volume alone, or with a title.
IdleWindow ==
    Quiet(handle_status_update(
              on_device_changed([Scanned EXCEPT !.current_index = 1]),
              [NoArg EXCEPT !.has_volume = TRUE, !.volume = 50]))

ActiveWindow ==
    Quiet(handle_status_update(
              on_device_changed([Scanned EXCEPT !.current_index = 1]),
              [NoArg EXCEPT !.has_title = TRUE, !.has_volume = TRUE,
                            !.volume = 50, !.state = "Playing",
                            !.time = TimeText(0, 1)]))

\* What the input box can hold.
RelayInputs ==
    {Input(VideoId, FALSE), Input(<<" ">> \o VideoId \o <<" ">>, FALSE),
     Input(NotAUrl, FALSE), Input(ShortToken, FALSE),
     Input(DottedToken, TRUE),
     Input(Https \o YOUTU_BE \o <<"/">> \o VideoId, FALSE),
     Input(Https \o YOUTU_BE \o <<"/">>, FALSE),
     Input(WatchUrl, FALSE),
     Input(Https \o WwwYoutubeCom \o ShortsPath \o VideoId, FALSE),
     Input(Https \o WwwYoutubeCom \o EmbedPath \o VideoId, FALSE),
     Input(OtherUrl, FALSE),
     Input(Https \o WwwYoutubeCom \o WatchV, FALSE),
     Input(WwwYoutubeCom \o WatchV \o VideoId, FALSE),
     Input(Https \o WwwNocookie \o WatchV \o VideoId, FALSE),
     Input(LocalPath, TRUE), Input(<<>>, FALSE), Input(<<" ">>, FALSE)}

\* What the relay host box can hold.
HostInputs == {<<>>, <<" ">>, PIPED_INSTANCE}

\* An entry of videoStreams.
Stream(url, videoOnly, container, format, codec, codecs, height, bitrate) ==
    [url |-> url, videoOnly |-> videoOnly, container |-> container,
     format |-> format, codec |-> codec, codecs |-> codecs,
     height |-> height, bitrate |-> bitrate]

Streams ==
    {Stream(UrlA, FALSE, Mp4, <<>>, H264, <<>>, 720, 1),
     Stream(UrlB, FALSE, Webm, <<>>, Vp9Profile, <<>>, 1080, 2),
     Stream(UrlC, FALSE, <<>>, Mp4Upper, <<>>, H264, 720, 1),
     Stream(UrlD, FALSE, <<>>, <<>>, Av1, <<>>, 1080, 2),
     Stream(UrlE, TRUE, Mp4, <<>>, H264, <<>>, 2160, 3),
     Stream(<<>>, FALSE, Mp4, <<>>, H264, <<>>, 2160, 3),
     Stream(UrlG, FALSE, Mp4, <<>>, Avc1, <<>>, 720, 2)}

\* What the relay can answer to /streams/<id>.
\* The sequences of at most n members of S.
RECURSIVE SeqsUpTo(_, _)
SeqsUpTo(S, n) ==
    IF n = 0 THEN {<<>>}
    ELSE LET shorter == SeqsUpTo(S, n - 1)
         IN  shorter \cup {Append(ss, x) : ss \in shorter, x \in S}

Responses ==
    {[videoStreams |-> ss, hls |-> h, dash |-> d] :
        ss \in SeqsUpTo(Streams, MaxStreams),
        h \in {<<>>, HlsUrl}, d \in {<<>>, DashUrl}}

NoData == [videoStreams |-> <<>>, hls |-> <<>>, dash |-> <<>>]
NoResult == [url |-> <<>>, raised |-> "none"]

\* The boxes of the window before a click, and a call of get_best_piped_url
\* before its first step.
Forms ==
    {[pc |-> "form", input |-> in, checked |-> c, host |-> h] :
        in \in RelayInputs, c \in BOOLEAN, h \in HostInputs}

Calls ==
    {[pc |-> "called", arg |-> strip(in.text), requested |-> FALSE,
      data |-> NoData, result |-> NoResult] : in \in RelayInputs}

InitRelay ==
    /\ \E w \in {IdleWindow, ActiveWindow} : Is(w)
    /\ call \in Forms \cup Calls

RelayCast ==
    /\ call.pc = "form" /\ Ready /\ enabled.action
    /\ Step(cast_media(Note(World, "cast_media"), call.input, call.checked,
                       call.host),
            [call EXCEPT !.pc = "cast"])

RelayEnqueue ==
    /\ call.pc = "form" /\ Ready /\ enabled.enqueue
    /\ Step(enqueue_media(Note(World, "enqueue_media"), call.input,
                          call.checked, call.host),
            [call EXCEPT !.pc = "add"])

\* get_best_piped_url: vid = extract_video_id(video_url_or_id).
ResolveIdentify ==
    /\ call.pc = "called"
    /\ call' = IF extract_video_id(call.arg) = <<>>
               THEN [call EXCEPT !.pc = "raised",
                                 !.result.raised = "Could not extract video ID"]
               ELSE [call EXCEPT !.pc = "identified"]
    /\ UNCHANGED vars_window

\* get_streams_json: the relay answers.
ResolveAnswered ==
    /\ call.pc = "identified"
    /\ \E data \in Responses :
          call' = [call EXCEPT !.pc = "answered", !.requested = TRUE,
                               !.data = data]
    /\ UNCHANGED vars_window

\* get_streams_json: urlopen or json.loads raises.
ResolveUnanswered ==
    /\ call.pc = "identified"
    /\ call' = [call EXCEPT !.pc = "raised", !.requested = TRUE,
                            !.result.raised = "request failed"]
    /\ UNCHANGED vars_window

\* get_best_piped_url: the progressive stream, the HLS or DASH fallback, or
\* the ValueError.
ResolveSelect ==
    /\ call.pc = "answered"
    /\ LET r == select_stream(call.data, PreferContainer, PreferCodecs)
       IN  call' = [call EXCEPT
                       !.pc = IF r.raised = "none" THEN "returned" ELSE "raised",
                       !.result = r]
    /\ UNCHANGED vars_window

NextRelay ==
    \/ RelayCast \/ RelayEnqueue \/ ResolveIdentify \/ ResolveAnswered
    \/ ResolveUnanswered \/ ResolveSelect

RelaySpec == InitRelay /\ [][NextRelay]_vars

\* ================================================= the status poll, by itself
\* A third specification runs handle_status_update over many time values and
\* handle_status_error over many error texts, from a window that is idle,
\* playing, playing with the ticker ahead, or confirming.
TimeExample ==
    <<"0", ":", "0", "1", ":", "2", "3", " ", "/", " ", "1", ":", "2", "3",
      ":", "4", "5">>
TimeHours ==
    <<"1", ":", "0", "0", ":", "0", "0", " ", "/", " ", "2", ":", "0", "0",
      ":", "0", "0">>
TimePercent ==
    <<"0", ":", "0", "0", ":", "0", "7", " ", "/", " ", "0", ":", "0", "0",
      ":", "0", "9", " ", "(", "7", "7", "%", ")">>
TimeZeroDuration ==
    <<"0", ":", "0", "0", ":", "0", "5", " ", "/", " ", "0", ":", "0", "0",
      ":", "0", "0">>
NotAvailable == <<"N", "/", "A">>
TimeTwoNumbers == <<"1", ":", "2", "3">>
TimeElapsedOnly == <<"0", ":", "0", "1", ":", "2", "3">>
TimeDurationNA ==
    <<"0", ":", "0", "1", ":", "2", "3", " ", "/", " ", "N", "/", "A">>
TimeLetter ==
    <<"0", ":", "0", "x", ":", "2", "3", " ", "/", " ", "1", ":", "2", "3",
      ":", "4", "5">>
TimeDurationTwoNumbers ==
    <<"0", ":", "0", "1", ":", "2", "3", " ", "/", " ", "1", ":", "2", "3">>
TimeNoBlanks ==
    <<"0", ":", "0", "1", ":", "2", "3", "/", "1", ":", "2", "3", ":", "4",
      "5">>

\* The window of ActiveWindow after the ticker has fired once.
TickedWindow == Quiet(update_local_progress(ActiveWindow))

\* The window of ActiveWindow (IdleWindow) after a click of refresh.
RefreshedWindow == Quiet(on_refresh_clicked(ActiveWindow))
RefreshedIdleWindow == Quiet(on_refresh_clicked(IdleWindow))

\* What a slot finds when it starts to run.
Before ==
    [casting |-> is_casting, time |-> local_current_time,
     resync |-> status_timer, confirm |-> post_cast_poll_timer,
     ticker |-> playback_timer, label |-> status_label]

NotRun ==
    [casting |-> FALSE, time |-> 0, resync |-> FALSE, confirm |-> FALSE,
     ticker |-> FALSE, label |-> "-"]

\* The time values a status text can carry; <<>> is the absent key.
TimeTexts ==
    {<<>>, TimeExample, TimeText(0, 1), TimeHours, TimePercent,
     TimeZeroDuration, NotAvailable, TimeTwoNumbers, TimeElapsedOnly,
     TimeDurationNA, TimeLetter, TimeDurationTwoNumbers, TimeNoBlanks}

\* A status text with a title that the worker has emitted.
Polls ==
    {[pc |-> "polled",
      out |-> [NoArg EXCEPT !.has_title = TRUE, !.has_volume = TRUE,
                            !.volume = v, !.state = st, !.time = tm],
      was |-> NotRun] :
        v \in {25, 50}, st \in {"Playing", "Paused", "Unknown"},
        tm \in TimeTexts}

ErrNothingPlaying ==
    <<"N", "o", "t", "h", "i", "n", "g", " ", "i", "s", " ", "c", "u", "r",
      "r", "e", "n", "t", "l", "y", " ", "p", "l", "a", "y", "i", "n", "g",
      ".">>
ErrCapital ==
    <<"D", "e", "v", "i", "c", "e", " ", "I", "n", "a", "c", "t", "i", "v",
      "e">>
ErrNotFound ==
    <<"'", "c", "a", "t", "t", "'", " ", "c", "o", "m", "m", "a", "n", "d",
      " ", "n", "o", "t", " ", "f", "o", "u", "n", "d", ".">>

\* The texts the error signal of a status poll can carry.
StatusErrors ==
    {ErrInactive, ErrNothingPlaying, ErrTimedOut, ErrCapital, ErrNotFound, <<>>}

\* A status poll that has failed.
FailedPolls == {[pc |-> "failed", err |-> e, was |-> NotRun] : e \in StatusErrors}

InitStatus ==
    /\ \E w \in {IdleWindow, ActiveWindow, TickedWindow, RefreshedWindow,
                  RefreshedIdleWindow} : Is(w)
    /\ call \in Polls \cup FailedPolls

HandleStatus ==
    /\ call.pc = "polled"
    /\ Step(handle_status_update(Note(World, "handle_status_update"), call.out),
            [call EXCEPT !.pc = "handled", !.was = Before])

HandleStatusError ==
    /\ call.pc = "failed"
    /\ Step(handle_status_error(Note(World, "handle_status_error"), call.err),
            [call EXCEPT !.pc = "shown", !.was = Before])

NextStatus == HandleStatus \/ HandleStatusError

StatusSpec == InitStatus /\ [][NextStatus]_vars


\* ==================================================================== claims
\* A click or slider move that asks for a command other than a status poll.
NonPollingCommand ==
    \/ Rescan \/ Cast \/ CastSite \/ Enqueue \/ Stop
    \/ QuickAction \/ SetVolume \/ Seek

\* The worker of self.thread is executing a command other than a status poll.
CommandInFlight ==
    /\ app = "running" /\ thread # 0
    /\ Working(threads[thread]) /\ threads[thread].verb # "status"

\* The worker of self.thread is executing a status poll.
PollInFlight ==
    /\ app = "running" /\ thread # 0
    /\ Working(threads[thread]) /\ threads[thread].verb = "status"

\* C1: in every reachable state at most one worker thread (catt command or
\* relay resolution) has been started and has not yet stopped.
C1_AtMostOneWorker ==
    Cardinality({t \in ThreadIds : isRunning(threads[t])}) <= 1

\* C1, witness: a worker is executing while the thread-finished signal of the
\* thread before it still waits in the queue of the control thread.
C1_Witness ==
    \E t \in ThreadIds :
        /\ threads[t].phase = "finished"
        /\ thread \notin {0, t}
        /\ Working(threads[thread])

\* C2: a command other than a status poll that is requested (with a device
\* selected) while another command is in flight sets the status message to
\* the busy message, starts no worker and leaves the queued signals of the
\* command in flight in place.
C2_BusyRejection ==
    [][(CommandInFlight /\ selected_ip(World) # 0 /\ NonPollingCommand)
          => /\ status_label' = MsgBusy
             /\ threads' = threads
             /\ queue' = queue]_vars

\* C3: a command other than a status poll that is requested while a status
\* poll is in flight is not rejected with the busy message.
C3_PollNeverBlocks ==
    [][(PollInFlight /\ selected_ip(World) # 0
          /\ (Rescan \/ Cast \/ CastSite \/ Stop))
          => status_label' # MsgBusy]_vars

\* A status poll can be requested next: by a timeout of the slow status timer
\* or of the fast-poll timer, or by the result slot of set_volume/seek_media.
PollRequestable ==
    /\ app = "running"
    /\ \/ status_timer
       \/ post_cast_poll_timer
       \/ Pending("result")
            /\ threads[Head(queue).t].on_result = "request_status_update"

\* C4: request_status_update, called while a worker thread is running, starts
\* no worker, queues nothing, and leaves the status message, the playback
\* status, the three timers and the enablement of the controls as they are.
C4_PollDropped ==
    (PollRequestable /\ Busy(World)) =>
        LET w == request_status_update(World)
        IN  /\ w.threads = threads /\ w.thread = thread /\ w.queue = queue
            /\ w.status_label = status_label
            /\ w.is_casting = is_casting
            /\ w.status_timer = status_timer
            /\ w.post_cast_poll_timer = post_cast_poll_timer
            /\ w.playback_timer = playback_timer
            /\ w.enabled = enabled

\* C4, witness: the slow status timer has just fired while the worker of a
\* command other than a status poll was executing.
C4_Witness ==
    /\ last = "status_timer" /\ selected_ip(World) # 0
    /\ CommandInFlight

\* C5: at most one detached local-cast process is alive, and while the worker
\* of a local-file cast has not yet spawned its process, no detached process
\* is alive and the window holds no process handle.
C5_OneLocalProcess ==
    /\ Cardinality({p \in ProcIds : procs[p] = "alive"}) <= 1
    /\ \A t \in ThreadIds :
          (threads[t].local /\ threads[t].phase = "run") =>
              /\ local_cast_process = 0
              /\ \A p \in ProcIds : procs[p] # "alive"

\* C5, witness: a local-file cast has just terminated the process of the
\* local cast before it and started its own worker.
C5_Witness ==
    /\ last = "kill_local_cast_process"
    /\ thread # 0 /\ threads[thread].local /\ threads[thread].phase = "run"

\* C6: a timeout of the fast-poll timer gives up (timer stopped, not casting,
\* message 'Action sent, but status is unknown.') exactly when five polls
\* have been attempted in the cycle, and otherwise attempts one more poll
\* and leaves the timer running; no other step changes the count of a
\* running cycle except by starting a new cycle with its first poll.
C6_GiveUpAfterFive ==
    [][IF post_cast_poll_timer /\ FastPollTick
       THEN IF post_cast_poll_attempts = MaxAttempts
            THEN /\ ~post_cast_poll_timer' /\ ~is_casting'
                 /\ status_label' = MsgUnknown
            ELSE /\ post_cast_poll_timer'
                 /\ post_cast_poll_attempts' = post_cast_poll_attempts + 1
       ELSE post_cast_poll_timer' =>
                \/ post_cast_poll_timer
                      /\ post_cast_poll_attempts' = post_cast_poll_attempts
                \/ post_cast_poll_attempts' = 1]_vars

\* C6, witness: a confirming cycle has given up.
C6_Witness ==
    /\ status_label = MsgUnknown /\ ~post_cast_poll_timer /\ ~is_casting

\* C7: in every state, handling a status response that holds a title leaves
\* is_casting true and the fast-poll timer stopped.
C7_TitleMeansActive ==
    app = "running" =>
        \A out \in StatusOutputs :
            out.has_title =>
                LET w == handle_status_update(World, out)
                IN  w.is_casting /\ ~w.post_cast_poll_timer

\* C7, witness: a status response with a title has been handled.
C7_Witness ==
    /\ is_casting /\ ~post_cast_poll_timer
    /\ status_label \in {"Playing: title", "Paused: title"}

\* The signal at the head of the queue is the result of a status poll.
StatusResultPending ==
    /\ Pending("result")
    /\ threads[Head(queue).t].on_result = "handle_status_update"

\* C8: handling a status response with neither title nor volume while the
\* fast-poll timer is stopped leaves is_casting false, the slow status timer
\* and the ticker stopped, and the message 'Device is idle or not
\* responding.'.
C8_NoTitleNoVolumeIdle ==
    (StatusResultPending /\ ~post_cast_poll_timer) =>
        LET w == handle_status_update(World, NoArg)
        IN  /\ ~w.is_casting /\ ~w.status_timer /\ ~w.playback_timer
            /\ w.status_label = MsgIdleNotResponding

\* C8, witness: such a response has been handled.
C8_Witness ==
    /\ status_label = MsgIdleNotResponding
    /\ ~is_casting /\ ~status_timer /\ ~playback_timer

\* What a failed relay resolution must leave alone.
PlaybackUntouched ==
    /\ is_casting' = is_casting
    /\ status_timer' = status_timer
    /\ post_cast_poll_timer' = post_cast_poll_timer
    /\ playback_timer' = playback_timer
    /\ local_cast_process' = local_cast_process
    /\ procs' = procs

\* The step starts a relay resolution.
RelayStarted ==
    /\ thread' # 0
    /\ threads'[thread'].kind = "piped" /\ threads'[thread'].phase = "run"
    /\ ~(thread # 0 /\ threads[thread].kind = "piped"
                    /\ threads[thread].phase = "run")

\* C9: the step that starts a relay resolution, the slot that handles its
\* failure and the slot that handles the end of its thread leave the playback
\* status, the three timers and the detached process as they are; the failure
\* slot clears the pending record, and neither slot starts a worker.
C9_FailureChangesNothing ==
    [][/\ RelayStarted => PlaybackUntouched
       /\ (Pending("error") /\ threads[Head(queue).t].kind = "piped"
              /\ DeliverError)
            => /\ _pending_piped_cast_info' = NoInfo
               /\ thread' = thread
               /\ \A t \in ThreadIds : threads'[t].phase = threads[t].phase
               /\ PlaybackUntouched
       /\ (Pending("thread_finished") /\ Head(queue).t = thread
              /\ threads[thread].kind = "piped"
              /\ _pending_piped_cast_info = NoInfo
              /\ DeliverThreadFinished)
            => /\ thread' = 0
               /\ \A t \in ThreadIds : threads'[t].phase # "run"
               /\ PlaybackUntouched]_vars

\* C9, witness: the failure of a relay resolution has been handled.
C9_Witness ==
    /\ status_label = "Piped Error"
    /\ _pending_piped_cast_info = NoInfo

\* C10: a cast or enqueue requested while a pending record exists leaves the
\* record as it is, and the thread-finished slot of a thread other than
\* self.thread leaves the record as it is.
C10_OneResolution ==
    [][/\ (_pending_piped_cast_info # NoInfo /\ (Cast \/ Enqueue))
            => _pending_piped_cast_info' = _pending_piped_cast_info
       /\ (Pending("thread_finished") /\ Head(queue).t # thread
              /\ _pending_piped_cast_info # NoInfo
              /\ DeliverThreadFinished /\ app' = "running")
            => _pending_piped_cast_info' = _pending_piped_cast_info]_vars

\* The references of RelayInputs of the shapes that carry an identifier: the
\* bare token, the first path segment of a youtu.be URL, the v parameter and
\* the /shorts/<id> segment of a youtube.com URL (and of youtube-nocookie.com,
\* which the code accepts as well).
C11_Identified ==
    {VideoId, Https \o YOUTU_BE \o <<"/">> \o VideoId, WatchUrl,
     Https \o WwwYoutubeCom \o ShortsPath \o VideoId,
     Https \o WwwNocookie \o WatchV \o VideoId}

\* The click of cast (enqueue) has started the relay thread for media.
C11_Resolving(media) ==
    /\ thread # 0 /\ threads[thread].phase = "run"
    /\ threads[thread].kind = "piped" /\ threads[thread].ref = media
    /\ _pending_piped_cast_info.cast_mode = call.pc

\* The click has started the cast (add) command with media as its argument.
C11_Passed(media) ==
    /\ thread # 0 /\ threads[thread].phase = "run"
    /\ threads[thread].kind = "catt" /\ threads[thread].verb = call.pc
    /\ threads[thread].ref = media
    /\ _pending_piped_cast_info = NoInfo

\* C11: after a click of cast or enqueue with a device selected and no worker
\* running, the relay thread has been started if and only if the relay box is
\* checked, a relay host is given and the reference is one of the shapes that
\* carry an identifier, which is when extract_video_id yields it; for any
\* other reference that is not blank no relay thread exists and the cast (add)
\* command has been started with the stripped reference as its argument.
C11_RelayIffIdentified ==
    call.pc \in {"cast", "add"} =>
        LET media == strip(call.input.text)
        IN  /\ extract_video_id(media)
                  = (IF media \in C11_Identified THEN VideoId ELSE <<>>)
            /\ C11_Resolving(media)
                  <=> /\ call.checked /\ strip(call.host) # <<>>
                      /\ media \in C11_Identified
            /\ (media \notin C11_Identified /\ media # <<>>)
                  => /\ C11_Passed(media)
                     /\ \A t \in ThreadIds : threads[t].kind # "piped"

\* C11, witness: enqueue has started the relay thread for a /shorts/ URL.
C11_Witness ==
    /\ call.pc = "add"
    /\ C11_Resolving(Https \o WwwYoutubeCom \o ShortsPath \o VideoId)

\* The score the rule gives to each of Streams under the preferences mp4,
\* webm and h264, av1, vp9: the rank of a listed value is the length of the
\* list less its index counted from 0, the rank of any other is 0.
C12_Tuple(s) ==
    CASE s.url = UrlA -> <<2, 3, 720, 1>>
      [] s.url = UrlB -> <<1, 1, 1080, 2>>
      [] s.url = UrlC -> <<2, 3, 720, 1>>
      [] s.url = UrlD -> <<1, 2, 1080, 2>>
      [] s.url = UrlG -> <<2, 0, 720, 2>>
      [] OTHER -> <<0, 0, 0, 0>>

\* The positions of the progressive candidates of a relay answer.
C12_Progressive(data) ==
    {i \in 1..Len(data.videoStreams) :
        data.videoStreams[i].url # <<>> /\ ~data.videoStreams[i].videoOnly}

C12_Greater(a, b) ==
    \E k \in 1..4 : a[k] > b[k] /\ \A j \in 1..(k - 1) : a[j] = b[j]

\* url is the URL of the candidate that scores more than every candidate
\* before it and no less than every candidate after it.
C12_IsBest(data, url) ==
    \E i \in C12_Progressive(data) :
        /\ url = data.videoStreams[i].url
        /\ \A j \in C12_Progressive(data) :
              IF j < i
              THEN C12_Greater(C12_Tuple(data.videoStreams[i]),
                               C12_Tuple(data.videoStreams[j]))
              ELSE ~C12_Greater(C12_Tuple(data.videoStreams[j]),
                                C12_Tuple(data.videoStreams[i]))

\* C12: for every answer of the relay that get_best_piped_url has selected
\* from, pick_best_progressive with the preferences mp4, webm and h264, av1,
\* vp9 gives None if no entry has a URL and is not video-only, and otherwise
\* the URL of the first candidate in input order whose tuple (container rank,
\* codec rank by prefix, height, bitrate) is lexicographically greatest; of an
\* mp4/h264 720p and a webm/vp9 1080p candidate it gives the former.
C12_BestProgressive ==
    (call.pc \in {"returned", "raised"} /\ call.requested /\ call.data # NoData)
        => /\ IF C12_Progressive(call.data) = {}
              THEN pick_best_progressive(call.data, PreferContainer,
                                         PreferCodecs) = <<>>
              ELSE C12_IsBest(call.data,
                              pick_best_progressive(call.data, PreferContainer,
                                                    PreferCodecs))
           /\ ({call.data.videoStreams[i].url :
                    i \in 1..Len(call.data.videoStreams)} = {UrlA, UrlB})
                 => pick_best_progressive(call.data, PreferContainer,
                                          PreferCodecs) = UrlA

\* C12, witness: of two candidates with equal tuples, the later one listed
\* first, the first in input order has been returned.
C12_Witness ==
    /\ call.pc = "returned"
    /\ Len(call.data.videoStreams) = 2
    /\ call.data.videoStreams[1].url = UrlC
    /\ call.data.videoStreams[2].url = UrlA
    /\ call.result.url = UrlC

\* C13: a call of get_best_piped_url that has returned has returned the URL
\* of the best progressive candidate if the answer of the relay has one,
\* otherwise its HLS URL if it has one, otherwise its DASH URL, which it then
\* has; a call that the relay has answered raises the no-stream error exactly
\* if the answer has none of the three; and a call whose argument carries no
\* identifier has raised without a request to the relay, while every request
\* made was for an argument that carries one.
C13_ProgressiveThenHlsThenDash ==
    call.pc \in {"identified", "answered", "returned", "raised"} =>
        /\ call.requested => call.arg \in C11_Identified
        /\ call.arg \notin C11_Identified
              => /\ call.pc = "raised" /\ ~call.requested
                 /\ call.result.raised = "Could not extract video ID"
        /\ call.pc = "returned"
              => /\ call.result.raised = "none"
                 /\ IF C12_Progressive(call.data) # {}
                    THEN C12_IsBest(call.data, call.result.url)
                    ELSE IF call.data.hls # <<>>
                    THEN call.result.url = call.data.hls
                    ELSE /\ call.data.dash # <<>>
                         /\ call.result.url = call.data.dash
        /\ (call.pc = "raised" /\ call.result.raised # "request failed"
               /\ call.requested)
              => /\ call.result.raised = "No suitable stream URL found"
                 /\ C12_Progressive(call.data) = {}
                 /\ call.data.hls = <<>> /\ call.data.dash = <<>>

\* C13, witness: the relay has answered with video-only entries and a DASH
\* URL, and the DASH URL has been returned.
C13_Witness ==
    /\ call.pc = "returned"
    /\ call.data.videoStreams # <<>>
    /\ call.data.hls = <<>>
    /\ call.result.url = DashUrl

\* The time values of the form H:MM:SS / H:MM:SS, with the position and the
\* duration each gives; one is followed by a blank and a percentage, which
\* the code cuts off.
C14_Timed ==
    {<<TimeExample, 83, 5025>>, <<TimeText(0, 1), 0, 1>>,
     <<TimeHours, 3600, 7200>>, <<TimePercent, 7, 9>>,
     <<TimeZeroDuration, 5, 0>>}

\* The time values that are malformed, and the absent one.
C14_Untimed ==
    {<<>>, NotAvailable, TimeTwoNumbers, TimeElapsedOnly, TimeDurationNA,
     TimeLetter, TimeDurationTwoNumbers, TimeNoBlanks}

\* The update has completed: the session is Active, and the state, the title
\* and the volume of the text are shown.
C14_Completed ==
    /\ is_casting /\ ~post_cast_poll_timer
    /\ status_timer = (call.was.resync \/ ~call.was.casting)
    /\ status_label = call.out.state \o ": title"
    /\ playback_timer = (call.out.state = "Playing")
    /\ volume_slider = call.out.volume

\* The content is shown as a stream: no duration, the progress slider
\* disabled, and the position left as it was, or 0 on the first update of
\* the session.
C14_Stream ==
    /\ local_duration = 0 /\ ~enabled.progress
    /\ local_current_time = IF call.was.casting THEN call.was.time ELSE 0

C14_WitnessStream ==
    /\ call.pc = "handled" /\ call.was.casting /\ call.was.time = 1
    /\ call.out.time = NotAvailable
    /\ local_current_time = 1 /\ local_duration = 0 /\ is_casting

\* The session is Idle and none of the three timers is active.
C15_IdleNoTimer ==
    ~is_casting /\ ~status_timer /\ ~post_cast_poll_timer /\ ~playback_timer

\* The signal at the head of the queue is the result or the error of a stop
\* command.
C15_StopOutcomePending ==
    /\ Pending("result") \/ Pending("error")
    /\ threads[Head(queue).t].verb = "stop"

\* C15: a click of stop with a device selected leaves the session Idle with
\* none of the three timers active in the same step, whether or not the stop
\* command is started; while the stop command runs the session is Idle; and
\* the slot that handles its result or its error finds the session Idle and
\* leaves it Idle, with the three timers as they were.
C15_StopGoesIdle ==
    [][/\ (Stop /\ selected_ip(World) # 0) => C15_IdleNoTimer'
       /\ (\E t \in ThreadIds : threads[t].verb = "stop" /\ Working(threads[t]))
            => ~is_casting
       /\ (C15_StopOutcomePending /\ (DeliverResult \/ DeliverError))
            => /\ ~is_casting /\ ~is_casting'
               /\ status_timer' = status_timer
               /\ post_cast_poll_timer' = post_cast_poll_timer
               /\ playback_timer' = playback_timer]_vars

\* C15, witness: the stop command has succeeded and its result has been
\* handled.
C15_Witness ==
    /\ status_label = "Playback stopped."
    /\ C15_IdleNoTimer

\* C16: the step in which the selected device changes leaves the session Idle
\* with the slow resync timer, the fast confirm timer and the ticker all
\* inactive, and a worker started in that step is the status poll of the
\* newly selected device.
C16_DeviceChangeResets ==
    [][SelectDevice
         => /\ ~is_casting' /\ ~status_timer'
            /\ ~post_cast_poll_timer' /\ ~playback_timer'
            /\ \A t \in ThreadIds :
                  (threads'[t].phase = "run" /\ threads[t].phase # "run")
                      => /\ threads'[t].verb = "status"
                         /\ current_index' > 0
                         /\ threads'[t].dev = devices'[current_index']]_vars

\* C16, witness: the selection has gone from a device to the placeholder
\* while a status poll of the device runs, and no timer is active.
C16_Witness ==
    /\ status_label = "Please select a device."
    /\ ~is_casting /\ ~status_timer /\ ~post_cast_poll_timer /\ ~playback_timer
    /\ \E t \in ThreadIds :
          /\ Working(threads[t]) /\ threads[t].verb = "status"
          /\ threads[t].dev # 0

\* C17 as stated: at most one of the three timers is active.
C17_AtMostOneTimer ==
    Cardinality({tm \in {"resync", "confirm", "ticker"} :
                    \/ tm = "resync" /\ status_timer
                    \/ tm = "confirm" /\ post_cast_poll_timer
                    \/ tm = "ticker" /\ playback_timer}) <= 1

\* C17: in every reachable state the fast confirm timer is not active
\* together with the slow resync timer or with the ticker.
C17_ConfirmExcludesOthers ==
    post_cast_poll_timer => ~status_timer /\ ~playback_timer

\* C17, witness: the session is Active and playing, with the slow resync
\* timer and the ticker both active.
C17_Witness ==
    /\ app = "running" /\ is_casting
    /\ status_timer /\ playback_timer /\ ~post_cast_poll_timer

\* The error texts that contain 'inactive' or 'Nothing is currently playing'.
C19_IdleTexts == {ErrInactive, ErrNothingPlaying}

C18_NoCommand ==
    /\ \A t \in ThreadIds : threads'[t].phase = "run" => threads[t].phase = "run"
    /\ local_cast_process' = local_cast_process
    /\ \A p \in ProcIds : (procs'[p] = "alive") <=> (procs[p] = "alive")

\* The step leaves the playback status and the three timers as they were.
C18_SameSession ==
    /\ is_casting' = is_casting /\ status_timer' = status_timer
    /\ post_cast_poll_timer' = post_cast_poll_timer
    /\ playback_timer' = playback_timer

\* C18 as stated: with no device selected, every operation and every status
\* poll starts no command and leaves the playback status, the timers and the
\* detached process as they were.
C18_NoDeviceNoEffect ==
    [][(selected_ip(World) = 0
          /\ (\/ Cast \/ CastSite \/ Enqueue \/ Stop \/ SetVolume \/ Seek
              \/ Refresh \/ QuickAction \/ StatusTimerTick \/ FastPollTick))
         => C18_NoCommand /\ C18_SameSession]_vars

\* C18: with no device selected, cast, cast_site, enqueue, stop, set_volume,
\* refresh and the quick transport actions cannot be requested; seek and a
\* poll of the slow resync timer start no command and leave the playback
\* status, the three timers and the detached process as they were; a poll of
\* the fast confirm timer starts no command and leaves the detached process as
\* it was, and it leaves the playback status and the timers as they were
\* unless it follows the fifth attempt of its cycle, when it stops the fast
\* confirm timer and leaves the session Idle with no timer active.
C18_NoDeviceNoCommand ==
    [][selected_ip(World) = 0
         => /\ ~(\/ Cast \/ CastSite \/ Enqueue \/ Stop \/ SetVolume
                 \/ Refresh \/ QuickAction)
            /\ (Seek \/ StatusTimerTick) => C18_NoCommand /\ C18_SameSession
            /\ FastPollTick
                 => /\ C18_NoCommand
                    /\ IF post_cast_poll_attempts < MaxAttempts
                       THEN C18_SameSession
                       ELSE /\ ~is_casting' /\ ~status_timer'
                            /\ ~post_cast_poll_timer' /\ ~playback_timer']_vars

\* C18, witness: with no device selected, the fast confirm timer has given
\* up.
C18_Witness ==
    /\ app = "running" /\ selected_ip(World) = 0 /\ combo_count > 0
    /\ status_label = MsgUnknown
    /\ ~post_cast_poll_timer /\ ~is_casting

\* The worker of a local cast has just emitted the signal sig.
C20_Emitted(sig) ==
    \E t \in ThreadIds :
        /\ threads'[t].local /\ threads'[t].phase = "done"
        /\ \E k \in 1..Len(queue') : queue'[k] = Signal(sig, t)

\* C20: the worker of a local cast whose process has exited when the wait of
\* three seconds ends emits the error signal and not the result signal,
\* whatever the exit code, and the text of the error is the standard error
\* without the blanks around it, or the message with the exit code if that
\* is empty; the worker of one whose process is still running emits the
\* result signal; and when that result is handled the window holds the handle
\* of the process, unless the process has been terminated since, and goes on
\* holding it.
C20_FailFastIsError ==
    [][/\ LocalFailedFast => C20_Emitted("error") /\ ~C20_Emitted("result")
       /\ LocalStillRunning => C20_Emitted("result") /\ ~C20_Emitted("error")
       /\ (LocalFailedFast \/ LocalStillRunning)
            => \A return_code \in ExitCodes :
                  /\ _run_local_cast(TRUE, return_code, StderrBoom)
                        = [sig |-> "error", text |-> <<"b", "o", "o", "m">>]
                  /\ \A stderr \in {<<>>, <<" ">>} :
                        _run_local_cast(TRUE, return_code, stderr)
                          = [sig |-> "error",
                             text |-> ExitCodeMessage
                                        \o (IF return_code = 0 THEN <<"0">>
                                            ELSE <<"1">>)]
       /\ (Pending("result") /\ threads[Head(queue).t].local /\ DeliverResult)
            => /\ \/ local_cast_process = threads[Head(queue).t].proc
                  \/ procs[threads[Head(queue).t].proc] # "alive"
               /\ local_cast_process' = local_cast_process]_vars

\* C20, witness: the local cast is still running after the wait, its success
\* has been handled, and the window holds the handle of the running process.
C20_Witness ==
    /\ app = "running" /\ post_cast_poll_timer
    /\ local_cast_process # 0 /\ procs[local_cast_process] = "alive"
    /\ \E t \in ThreadIds :
          /\ threads[t].phase \in {"done", "quit", "finished"}
          /\ threads[t].kind = "catt"

\* C20, witness of the other case: the process of a local cast has exited
\* within the wait, and its worker has emitted the error signal.
C20_WitnessFailed ==
    \E t \in ThreadIds :
        /\ threads[t].local /\ threads[t].phase = "done"
        /\ \E k \in 1..Len(queue) : queue[k] = Signal("error", t)

\* ------------------------------------------------------------------ C21
\* The result of a cast or of a quick transport action is handled while a
\* device is selected: a confirming cycle starts.
C21_CycleStarts ==
    /\ Pending("result")
    /\ threads[Head(queue).t].on_result \in {"handle_cast_success", "_start_fast_poll"}
    /\ selected_ip(World) # 0
    /\ DeliverResult

\* A status command is running on the channel in the next state.
C21_StatusInvoked ==
    \E t \in ThreadIds :
        /\ threads'[t].verb = "status"
        /\ threads'[t].phase = "run"

\* C21: when the result of a cast or of a quick transport action starts a
\* confirming cycle, the handler counts attempt 1 and a status command is
\* running when it returns, before any tick of the fast-poll timer.
C21_ImmediatePoll ==
    [][C21_CycleStarts
          => post_cast_poll_attempts' = 1 /\ C21_StatusInvoked]_vars

\* C21, what the code does: the handler counts attempt 1 and starts no
\* worker, because the thread whose result it handles is still running.
C21_ImmediatePollDropped ==
    [][C21_CycleStarts
          => /\ post_cast_poll_attempts' = 1 /\ post_cast_poll_timer'
             /\ ~C21_StatusInvoked
             /\ \A t \in ThreadIds :
                   threads'[t].phase = "run" => threads[t].phase = "run"]_vars

\* C21, the case: a confirming cycle has counted attempt 1 and the worker of
\* the cast that started it has not quit yet; no status command runs.
C21_Dropped ==
    /\ app = "running" /\ post_cast_poll_timer /\ post_cast_poll_attempts = 1
    /\ status_label = "Cast sent. Confirming playback..."
    /\ \A t \in ThreadIds : threads[t].verb # "status"

\* ------------------------------------------------------------------ C22
\* The result of a set_volume or seek command is handled while a device is
\* selected.
C22_Succeeds ==
    /\ Pending("result")
    /\ threads[Head(queue).t].on_result = "request_status_update"
    /\ selected_ip(World) # 0
    /\ DeliverResult

\* C22: when a volume or seek command has succeeded, a status command is
\* running when the result handler returns, and the handler starts no
\* confirming cycle: the attempt counter and the fast-poll timer are as they
\* were.
C22_ImmediateResync ==
    [][C22_Succeeds
          => /\ \E t \in ThreadIds :
                   threads'[t].verb = "status" /\ threads'[t].phase = "run"
             /\ post_cast_poll_attempts' = post_cast_poll_attempts
             /\ post_cast_poll_timer' = post_cast_poll_timer]_vars

\* C22, what the code does: the handler starts no worker and changes nothing
\* of the session, because the thread whose result it handles is still
\* running.
C22_ResyncDropped ==
    [][C22_Succeeds
          => /\ \A t \in ThreadIds : threads'[t].phase # "run"
             /\ post_cast_poll_attempts' = post_cast_poll_attempts
             /\ post_cast_poll_timer' = post_cast_poll_timer
             /\ status_timer' = status_timer
             /\ local_current_time' = local_current_time
             /\ volume_slider' = volume_slider]_vars

\* ------------------------------------------------------------------ C23
\* C23: whenever the session is Active and no confirming cycle is in
\* progress, the slow resync timer is armed.
C23_ActiveResyncs ==
    (app = "running" /\ is_casting /\ ~post_cast_poll_timer) => status_timer

\* C23, what the code does: a status with a title that ends a confirming
\* cycle arms the slow resync timer only if the session was not Active
\* before; if it was, the timer stays as _start_fast_poll left it, stopped.
C23_ArmedOnlyFromIdle ==
    [][(/\ Pending("result")
        /\ threads[Head(queue).t].on_result = "handle_status_update"
        /\ post_cast_poll_timer /\ is_casting /\ DeliverResult)
          => status_timer' = status_timer]_vars

\* C23, the case: the session is Active, no confirming cycle is in progress
\* and no timer will ask the device for its status again.
C23_NoResync ==
    /\ app = "running" /\ is_casting
    /\ ~post_cast_poll_timer /\ ~status_timer
    /\ selected_ip(World) # 0

\* ------------------------------------------------------------------ C24
\* The time values that report a position, with the position in seconds:
\* with a known duration, and without one.
C24_Reported ==
    {<<TimeExample, 83>>, <<TimeText(0, 1), 0>>, <<TimeHours, 3600>>,
     <<TimePercent, 7>>,
     <<TimeZeroDuration, 5>>, <<TimeElapsedOnly, 83>>, <<TimeDurationNA, 83>>}

\* C24: after a status text with a title has been handled in an Active
\* session, the position is the one the text reports, whether the text gives
\* a duration or not.
C24_PositionOverwritten ==
    (call.pc = "handled" /\ call.was.casting) =>
        \A tm \in C24_Reported :
            call.out.time = tm[1] => local_current_time = tm[2]

\* C24, what the code does: the position is the reported one if the text
\* gives a duration greater than zero, and otherwise the one the ticker
\* left.
C24_OverwrittenIfTimed ==
    (call.pc = "handled" /\ call.was.casting) =>
        \A tm \in C24_Reported :
            call.out.time = tm[1] =>
                local_current_time =
                    IF tm[1] \in {TimeZeroDuration, TimeElapsedOnly, TimeDurationNA}
                    THEN call.was.time ELSE tm[2]

\* C24, the case: the device reports the position 0:01:23 without a duration
\* to a session whose ticker stands at 1, and the position stays 1.
C24_Kept ==
    /\ call.pc = "handled" /\ call.was.casting /\ call.was.time = 1
    /\ call.out.time = TimeElapsedOnly
    /\ local_current_time = 1

\* ------------------------------------------------------------------ C25
\* The playback status, the attempt counter and the three timers are left as
\* they are.
C25_ConfirmationUnchanged ==
    /\ is_casting' = is_casting
    /\ post_cast_poll_attempts' = post_cast_poll_attempts
    /\ status_timer' = status_timer
    /\ post_cast_poll_timer' = post_cast_poll_timer
    /\ playback_timer' = playback_timer

\* The user clicks enqueue with a device selected: the add command or the
\* relay resolution is started, or the window is found busy.
C25_Clicked ==
    /\ enabled.enqueue
    /\ status_label' \in {"Enqueuing...", "Getting direct URL from Piped...",
                          MsgBusy}
    /\ status_label' # status_label
    /\ Enqueue

\* The relay thread of an enqueue has finished with a resolved URL, and its
\* slot starts the add command.
C25_ResolvedAdd ==
    /\ Pending("thread_finished")
    /\ threads[Head(queue).t].kind = "piped"
    /\ _pending_piped_cast_info.cast_mode = "add"
    /\ _pending_piped_cast_info.url # <<>>
    /\ DeliverThreadFinished /\ app' = "running"

\* The result of an add command is handled.
C25_Acknowledged ==
    /\ Pending("result")
    /\ threads[Head(queue).t].on_result = "enqueue_text"
    /\ DeliverResult

\* C25: the click of enqueue, the start of the add command after a relay
\* resolution and the handling of the result of the add command each leave
\* the playback status, the attempt counter and the three timers unchanged;
\* the last also leaves the believed position and volume unchanged, starts
\* no worker, and shows the acknowledgment.
C25_EnqueueKeepsConfirmation ==
    [][/\ C25_Clicked => C25_ConfirmationUnchanged
       /\ C25_ResolvedAdd => C25_ConfirmationUnchanged
       /\ C25_Acknowledged
            => /\ C25_ConfirmationUnchanged
               /\ local_current_time' = local_current_time
               /\ local_duration' = local_duration
               /\ volume_slider' = volume_slider
               /\ status_label' = "Enqueued."
               /\ \A t \in ThreadIds : threads'[t].phase # "run"]_vars

\* C25, witness: the acknowledgment of an enqueue is shown in a session that
\* is still Active with its slow resync timer armed.
C25_Witness ==
    /\ app = "running" /\ status_label = "Enqueued."
    /\ is_casting /\ status_timer /\ ~post_cast_poll_timer

\* C25, witness of the relay case: the slot of the finished relay thread has
\* started the add command for the resolved URL in an Active session.
C25_WitnessRelay ==
    /\ app = "running" /\ status_label = "Enqueuing..." /\ is_casting
    /\ \E t \in ThreadIds :
          /\ threads[t].verb = "add" /\ threads[t].ref = DirectUrl
          /\ threads[t].phase = "run"

\* ------------------------------------------------------------------ C26
\* The outcome signals of a worker (url_found is the result of the resolver
\* worker), and the queued calls of the slots connected to worker.finished.
C26_Outcomes == {"result", "error"}
C26_Finished == {"quit"}

\* How many signals of the worker t, of the kinds sigs, the queue q holds.
C26_Count(q, t, sigs) ==
    Cardinality({k \in 1..Len(q) : q[k].t = t /\ q[k].sig \in sigs})

\* The run() of some worker returns.
C26_RunEnds ==
    \/ WorkerResult \/ WorkerError \/ LocalFailedFast \/ LocalStillRunning
    \/ PipedFound \/ PipedFailed

\* C26, the states: while a worker executes run(), no outcome and no finished
\* signal of it is queued; at no time are two outcome signals or two finished
\* signals of one worker queued; and a queued outcome signal is followed in
\* the queue by the finished signal of the same worker.
C26_OneOutcomeQueued ==
    \A t \in ThreadIds :
        /\ Working(threads[t])
              => C26_Count(queue, t, C26_Outcomes \cup C26_Finished) = 0
        /\ C26_Count(queue, t, C26_Outcomes) <= 1
        /\ C26_Count(queue, t, C26_Finished) <= 1
        /\ \A k \in 1..Len(queue) :
              (queue[k].t = t /\ queue[k].sig \in C26_Outcomes)
                 => \E j \in (k + 1)..Len(queue) : queue[j] = Signal("quit", t)

\* C26, the steps: when run() returns, whatever the outcome, the worker has
\* emitted one signal that is result or error and then finished, once; a
\* step of a worker that does not end run() emits neither.
C26_OneOutcomeEmitted ==
    /\ (\E t \in ThreadIds : Working(threads[t])) /\ C26_RunEnds
         => \E t \in ThreadIds :
               /\ Working(threads[t]) /\ threads'[t].phase = "done"
               /\ C26_Count(queue', t, C26_Outcomes) = 1
               /\ C26_Count(queue', t, C26_Finished) = 1
               /\ queue'[Len(queue) + 1].t = t
               /\ queue'[Len(queue) + 1].sig \in C26_Outcomes
               /\ queue'[Len(queue) + 2] = Signal("quit", t)
               /\ SubSeq(queue', 1, Len(queue)) = queue
    /\ (\E t \in ThreadIds : threads[t].phase = "run" /\ threads[t].local)
         /\ LocalSpawn
         => \A t \in ThreadIds :
               C26_Count(queue', t, C26_Outcomes \cup C26_Finished)
                  = C26_Count(queue, t, C26_Outcomes \cup C26_Finished)

C27_NoTitleWhileConfirming ==
    /\ Pending("result") /\ post_cast_poll_timer
    /\ threads[Head(queue).t].on_result = "handle_status_update"
    /\ \E out \in StatusOutputs :
          /\ ~out.has_title
          /\ Do(on_result(Popped("handle_status_update"),
                          "handle_status_update", out))

\* C27: a status text without a title that is handled while a confirming
\* cycle is active leaves the playback status, the believed volume, position
\* and duration, the status label, the attempt counter and the three timers
\* as they were; the fast-poll timer stays active, so its next tick is the
\* next attempt.
C27_NotYetConfirmed ==
    [][C27_NoTitleWhileConfirming
          => /\ is_casting' = is_casting
             /\ volume_slider' = volume_slider
             /\ local_current_time' = local_current_time
             /\ local_duration' = local_duration
             /\ status_label' = status_label
             /\ enabled' = enabled
             /\ post_cast_poll_attempts' = post_cast_poll_attempts
             /\ post_cast_poll_timer' /\ post_cast_poll_timer
             /\ status_timer' = status_timer
             /\ playback_timer' = playback_timer]_vars

\* C27, witness: the slot of a status poll has just returned, a confirming
\* cycle that a click of refresh started is still active, and the window
\* shows what the click left: the text had no title.
C27_Witness ==
    /\ app = "running" /\ last = "handle_status_update"
    /\ post_cast_poll_timer /\ post_cast_poll_attempts = 2
    /\ status_label = "Refreshing status..." /\ ~is_casting

\* ------------------------------------------------------------------ C28
\* The pending record holds a resolved URL: the relay resolution of the
\* request has succeeded and on_url_found has run.
C28_Resolved == _pending_piped_cast_info.url # <<>>

\* The cast or add command of the pending request is started by this step:
\* it carries the resolved URL and the device address of the record.
C28_Invoked ==
    \E t \in ThreadIds :
        /\ threads'[t].phase = "run" /\ threads'[t].kind = "catt"
        /\ threads'[t].verb = _pending_piped_cast_info.cast_mode
        /\ threads'[t].ref = _pending_piped_cast_info.url
        /\ threads'[t].dev = _pending_piped_cast_info.device_ip

\* C28: unless the window is closed, a pending record that holds a resolved
\* URL is held until the slot of the finished resolver thread consumes it,
\* and that slot clears the record
\* and starts the cast or add command with the URL and the device address of
\* the record, when no resolver worker is running any more.
C28_ResolvedIsCast ==
    [][(/\ C28_Resolved /\ app' # "closed"
        /\ _pending_piped_cast_info' # _pending_piped_cast_info)
          => /\ C28_Invoked
             /\ _pending_piped_cast_info' = NoInfo
             /\ \A t \in ThreadIds :
                   threads[t].kind = "piped" => ~isRunning(threads[t])]_vars

\* ------------------------------------------------------------------ C29
\* The user clicks stop while a device is selected.
C29_Stopped == enabled.action /\ selected_ip(World) # 0 /\ Stop

\* C29: every click of stop with a device selected starts the stop command
\* for that device, and the detached process of a local cast, if the window
\* holds one, is no longer running when the command is started.
C29_StopIsSent ==
    [][C29_Stopped
          => /\ \E t \in ThreadIds :
                   /\ threads'[t].phase = "run" /\ threads'[t].verb = "stop"
                   /\ threads'[t].dev = selected_ip(World)
             /\ local_cast_process # 0
                   => procs'[local_cast_process] # "alive"]_vars

\* C29, what the code does: the detached process is terminated and the
\* session is reset to Idle by every such click, and the stop command is
\* started exactly if no worker thread is running.
C29_StopSentUnlessBusy ==
    [][C29_Stopped
          => /\ ~Busy(World)
                   => \E t \in ThreadIds :
                         /\ threads'[t].phase = "run" /\ threads'[t].verb = "stop"
                         /\ threads'[t].dev = selected_ip(World)
             /\ Busy(World)
                   => /\ status_label' = MsgBusy
                      /\ \A t \in ThreadIds :
                            threads'[t].phase = "run" => threads[t].phase = "run"
             /\ ~is_casting' /\ ~status_timer' /\ ~playback_timer'
             /\ ~post_cast_poll_timer' /\ local_cast_process' = 0
             /\ local_cast_process # 0
                   => procs'[local_cast_process] # "alive"]_vars

\* C29, the case: the session was reset by a click of stop that found a
\* status poll running, and no stop command was started.
C29_Dropped ==
    /\ app = "running" /\ status_label = MsgBusy /\ ~is_casting
    /\ selected_ip(World) # 0
    /\ \E t \in ThreadIds : threads[t].verb = "status" /\ threads[t].phase = "run"
    /\ \A t \in ThreadIds : threads[t].verb # "stop"

\* ------------------------------------------------------------------ C30
\* No timer is active.
C30_NoTimer == ~status_timer' /\ ~playback_timer' /\ ~post_cast_poll_timer'

\* _set_idle_state runs to its end in this step, called by the slot of a
\* status text without a title, by the slot of a status error, or by the
\* give-up of a confirming cycle: the session turns Idle or the message of
\* the caller is shown anew.
C30_SetIdle ==
    /\ app = "running" /\ app' = "running" /\ ~is_casting'
    /\ status_label' \in {MsgIdleReady, MsgIdleNotResponding, MsgUnknown}
    /\ is_casting \/ status_label' # status_label
    /\ \/ (Pending("result") /\ DeliverResult)
       \/ (Pending("error") /\ DeliverError)
       \/ (post_cast_poll_timer /\ FastPollTick)

\* C30: after _set_idle_state has returned to the slot of a status text
\* without a title, to the slot of a status error or to the give-up of a
\* confirming cycle, none of the three timers is active.
C30_IdleStopsTimers == [][C30_SetIdle => C30_NoTimer]_vars

\* C30, what the code does: _set_idle_state stops the slow resync timer and
\* the ticker; the fast-poll timer is stopped by the give-up before the
\* call, is found stopped by the slot of a status text, and is left running
\* by the slot of a status error that arrives during a confirming cycle.
C30_ResyncAndTickerStopped ==
    [][C30_SetIdle
          => /\ ~status_timer' /\ ~playback_timer'
             /\ (Pending("result") /\ DeliverResult)
                   => ~post_cast_poll_timer /\ ~post_cast_poll_timer'
             /\ (post_cast_poll_timer /\ FastPollTick)
                   => ~post_cast_poll_timer'
             /\ (Pending("error") /\ DeliverError)
                   => post_cast_poll_timer' = post_cast_poll_timer]_vars

\* C30, the case: the window shows the Idle message of an inactive device
\* while the fast-poll timer of a confirming cycle is still active.
C30_IdleWhileConfirming ==
    /\ app = "running" /\ status_label = MsgIdleReady /\ ~is_casting
    /\ post_cast_poll_timer

\* ------------------------------------------------------------------ C31
\* C31: once the window has been closed, no detached local-cast process is
\* alive.
C31_NoOrphan ==
    app = "closed" => \A p \in ProcIds : procs[p] # "alive"

\* C31, what the code does: closeEvent terminates the process whose handle
\* the window holds, and no other.
C31_HeldIsTerminated ==
    [][(app = "running" /\ app' = "closed")
          => \A p \in ProcIds :
                procs'[p] = "alive"
                   <=> (procs[p] = "alive" /\ local_cast_process # p)]_vars

\* C31, the case: the window was closed after the worker of a local cast had
\* spawned its process and before the slot of process_created had stored the
\* handle; the process lives on.
C31_Orphan ==
    app = "closed" /\ \E p \in ProcIds : procs[p] = "alive"

\* ------------------------------------------------------------------ C32
\* The playback status and the three timers are as they were, and no
\* confirming cycle is started.
C32_SessionUnchanged ==
    /\ is_casting' = is_casting
    /\ status_timer' = status_timer
    /\ playback_timer' = playback_timer
    /\ post_cast_poll_timer' = post_cast_poll_timer
    /\ post_cast_poll_attempts' = post_cast_poll_attempts

\* The error of a command other than a status poll is handled.
C32_ErrorHandled ==
    /\ Pending("error")
    /\ threads[Head(queue).t].on_error = "handle_command_error"
    /\ DeliverError

\* The slot connected to the finished signal of a command that disabled the
\* controls runs while the window shows the error of the command.
C32_Completed ==
    /\ Pending("enable") /\ status_label = "Error"
    /\ DeliverEnable

\* C32: when the error of a command is handled, the playback status and the
\* three timers stay as they were, no confirming cycle is started, and the
\* error is shown as the status message; the message is still shown when the
\* slots of the finished signal of the command have run.
C32_ErrorShown ==
    [][/\ C32_ErrorHandled
            => C32_SessionUnchanged /\ status_label' = "Error"
       /\ C32_Completed
            => C32_SessionUnchanged /\ status_label' = "Error"]_vars

\* C32, what the code does: the session is left as claimed, and the error is
\* shown until the slot of the finished signal enables the controls again;
\* that slot replaces it by the message of get_selected_device_ip when the
\* combo box is empty or no device is known.
C32_ErrorShownUntilEnabled ==
    [][/\ C32_ErrorHandled
            => C32_SessionUnchanged /\ status_label' = "Error"
       /\ C32_Completed
            => /\ C32_SessionUnchanged
               /\ status_label' =
                     IF combo_count = 0 THEN MsgNoDevicesScan
                     ELSE IF current_index < 0 \/ devices = <<>>
                     THEN MsgNoDeviceSelected
                     ELSE "Error"]_vars

\* C32, the case: the first scan has failed, its worker thread has been told
\* to quit, and the window shows the message of the empty combo box in place
\* of the error.
C32_Overwritten ==
    /\ app = "running" /\ combo_count = 0
    /\ status_label = MsgNoDevicesScan
    /\ \E t \in ThreadIds : threads[t].phase \in {"quit", "finished"}

\* ------------------------------------------------------------------ C33
\* C33: the slow resync timer and the ticker are active only while the
\* session is Active and the fast-poll timer is not active.
C33_TimersOnlyWhileActive ==
    /\ post_cast_poll_timer => ~status_timer /\ ~playback_timer
    /\ ~is_casting => ~status_timer /\ ~playback_timer

\* C33, witness: a confirming cycle runs in a session that is Active, and
\* the slow resync timer and the ticker are stopped for its duration.
C33_Witness ==
    /\ app = "running" /\ is_casting /\ post_cast_poll_timer
    /\ ~status_timer /\ ~playback_timer
    /\ status_label \in {"Refreshing status...", "Confirming action..."}

\* C33, witness of the other case: the slot of a status text has just turned
\* an Idle session Active and started the slow resync timer and the ticker.
C33_WitnessActive ==
    /\ app = "running" /\ last = "handle_status_update"
    /\ is_casting /\ status_timer /\ playback_timer /\ ~post_cast_poll_timer

\* ------------------------------------------------------------------ C34
\* The result of a status poll is handled while the device it was requested
\* for is not the selected one.
C34_StaleHandled ==
    /\ Pending("result")
    /\ threads[Head(queue).t].on_result = "handle_status_update"
    /\ threads[Head(queue).t].dev # selected_ip(World)
    /\ DeliverResult

\* C34: the result of a status poll that was requested for a device other
\* than the selected one sets neither the playback status nor the title,
\* position, duration or volume shown.
C34_StaleIgnored ==
    [][C34_StaleHandled
          => /\ is_casting' = is_casting
             /\ status_label' = status_label
             /\ local_current_time' = local_current_time
             /\ local_duration' = local_duration
             /\ volume_slider' = volume_slider]_vars

\* C34, the case: no device is selected, and the window shows an Active
\* session with the title and the volume of the device selected before.
C34_StaleShown ==
    /\ app = "running" /\ selected_ip(World) = 0
    /\ is_casting /\ status_timer /\ volume_slider = 50
    /\ status_label = "Playing: title"

\* ------------------------------------------------------------------ C35
\* C35: while the duration is known, a tick never moves the believed position
\* beyond it, and a tick that reaches it stops the ticker.
C35_TickBounded ==
    [][(playback_timer /\ is_casting /\ local_duration > 0 /\ PlaybackTick)
          => /\ local_current_time' <= local_duration
             /\ local_current_time' = local_duration => ~playback_timer']_vars

\* C35 as a property of the states: while the duration is known, the believed
\* position is not beyond it.
(* What update_local_progress does instead: it increments first and compares
   afterwards, so a tick that starts at the duration (after a seek to the end
   of the slider) leaves the position one past it, and only then stops. *)
C35_TickOvershootsByOne ==
    [][(playback_timer /\ is_casting /\ local_duration > 0 /\ PlaybackTick)
          => /\ local_current_time' = local_current_time + 1
             /\ local_current_time' >= local_duration => ~playback_timer'
             /\ local_current_time' <= local_duration + 1]_vars

C35_Overshoot ==
    /\ app = "running" /\ is_casting /\ local_duration > 0
    /\ local_current_time = local_duration + 1
    /\ ~playback_timer

\* ------------------------------------------------------------------ C36
\* A click of cast or of stop, with a device selected, that finds a worker
\* thread running and is answered by the busy message.
C36_Rejected ==
    /\ status_label' = MsgBusy /\ Busy(World) /\ selected_ip(World) # 0
    /\ enabled.action /\ (Cast \/ Stop)

\* The session, the three timers and the detached process are as before.
C36_SessionKept ==
    /\ is_casting' = is_casting
    /\ status_timer' = status_timer
    /\ post_cast_poll_timer' = post_cast_poll_timer
    /\ playback_timer' = playback_timer

C36_ProcessKept ==
    /\ local_cast_process' = local_cast_process
    /\ \A p \in DOMAIN procs : (procs'[p] = "alive") <=> (procs[p] = "alive")

\* C36: a cast or stop request rejected as busy changes nothing but the
\* status message: the session, the three timers and the detached process of
\* a local cast (alive or not, held or not) are the same as before.
C36_BusyRejectionIsFrame ==
    [][C36_Rejected => C36_SessionKept /\ C36_ProcessKept]_vars

\* C36, what the code does: the handlers act before run_catt_command looks at
\* the thread.  A rejected request changes nothing, or it has terminated the
\* held process and kept the session (a cast of a local file), or it has
\* terminated the held process and reset the session to Idle (a stop).
C36_RejectedAfterEffects ==
    [][C36_Rejected
          => \/ C36_SessionKept /\ C36_ProcessKept
             \/ /\ C36_SessionKept
                /\ local_cast_process # 0 /\ local_cast_process' = 0
                /\ procs'[local_cast_process] # "alive"
             \/ /\ ~is_casting' /\ ~status_timer' /\ ~playback_timer'
                /\ ~post_cast_poll_timer' /\ local_cast_process' = 0
                /\ local_cast_process # 0
                      => procs'[local_cast_process] # "alive"]_vars

\* C36, the case: a cast of a local file was rejected as busy and the window
\* no longer holds a process, while a status poll is the thread that runs.
C36_KilledByRejectedCast ==
    /\ app = "running" /\ status_label = MsgBusy /\ is_casting
    /\ local_cast_process = 0 /\ last = "kill_local_cast_process"

\* ------------------------------------------------------------------ C37
\* The result of a scan is handled.
C37_ScanHandled ==
    /\ Pending("result")
    /\ threads[Head(queue).t].on_result = "handle_scan_result"
    /\ DeliverResult

\* The device lists that the well-formed lines of a scan output name.
C37_DeviceLists == {[i \in 1..n |-> i] : n \in 0..MaxDevices}

\* A status poll is started in this step: there is one more thread than
\* before whose worker runs a status command.
C37_Polls(ths) ==
    Cardinality({t \in ThreadIds :
                    ths[t].phase = "run" /\ ths[t].verb = "status"})

C37_PollStarted == C37_Polls(threads') > C37_Polls(threads)

\* After a scan result is handled the devices are those of the well-formed
\* lines of the output and of nothing else, the placeholder entry of the
\* selector is the current one, the session is Idle, no timer is active and
\* no status poll was started.
C37_AfterScan ==
    C37_ScanHandled
        => /\ devices' \in C37_DeviceLists
           /\ combo_count' = 1 + Len(devices')
           /\ current_index' = 0
           /\ ~is_casting'
           /\ ~status_timer' /\ ~post_cast_poll_timer' /\ ~playback_timer'
           /\ ~C37_PollStarted

\* A status poll is started only for a selected device.
C37_PollNeedsDevice == C37_PollStarted => current_index' # 0

\* C37: handling a scan result replaces the device list by the devices of the
\* parsed lines (lines without two " - "-separated fields give none), leaves
\* no device selected, the session Idle and the three timers stopped; and no
\* status poll is started while no device is selected.
C37_ScanResetsSession ==
    [][C37_AfterScan]_vars /\ [][C37_PollNeedsDevice]_vars

\* C37, the case: the slot of a scan result has just run and the thread of
\* the scan has yet to be told to quit: the controls are still disabled, one
\* device is listed, none is selected, and the window is Idle with no timer
\* active.
C37_Witness ==
    /\ app = "running" /\ status_label = "Please select a device."
    /\ ~enabled.nav /\ thread # 0
    /\ queue # <<>> /\ Head(queue) = Signal("quit", thread)
    /\ devices = <<1>> /\ current_index = 0 /\ ~is_casting
    /\ ~status_timer /\ ~post_cast_poll_timer /\ ~playback_timer
====
